---- MODULE Spec2Model ----
(***************************************************************************)
(* A model of the arcade tool runtime: the actor (worker) dispatch layer   *)
(* hosted in FastAPI, the invocation path through BaseActor.call_tool and  *)
(* the output factory, and the lock-file driven ToolCatalog.               *)
(*                                                                         *)
(* Python values are encoded as strings so that values of different        *)
(* Python types can be compared: "None" is None, "bool:False" is False,    *)
(* "int:0" is 0, "str:" is the empty string, "json:[]" the empty list.     *)
(* An Optional[int] is a set: {} is None and {500} is 500.                 *)
(***************************************************************************)
EXTENDS Integers, Sequences, FiniteSets, TLC

VARIABLES
    env,        \* os.environ.get("ARCADE_ACTOR_SECRET") of the process
    actor,      \* the actor object: constructor call and resulting fields
    routes,     \* routes bound on the FastAPI app: endpoint_path -> use_auth_for_route
    catalog,    \* actor.catalog: fully qualified tool name -> callable
    calls,      \* call counter of every native callable
    req,        \* the request being served and the position of its handler
    resp,       \* the last response sent by the transport
    toolpack,   \* lock file entries not yet read by ToolCatalog.read_tools
    tools,      \* ToolCatalog.tools: key -> MaterializedTool
    order,      \* insertion order of the keys of ToolCatalog.tools
    loading,    \* position of ToolCatalog.__init__: "reading", "done", or the exception raised
    registered, \* the lock file entries read so far, in order
    invocations, \* the call_tool coroutines of the event loop, by task
    slack,      \* the Slack tool being run: arguments, position, Slack calls
    paginate,   \* the async_paginate call in progress
    gmail,      \* the Gmail tool being run: position, API requests, result
    calendar    \* the free-slot computation: its inputs and its result

vars ==
    <<env, actor, routes, catalog, calls, req, resp,
      toolpack, tools, order, loading, registered, invocations,
      slack, paginate, gmail, calendar>>

actorVars == <<env, actor, routes, catalog, calls, req, resp>>
catalogVars == <<toolpack, tools, order, loading, registered>>

taskVars == <<invocations, slack, paginate, gmail, calendar>>


None == "None"

\* A cursor of the Slack API: None, or a string naming the offset of the
\* next item (the empty string for offset 0)
NoCursor == [kind |-> "None", offset |-> 0]

\* No Slack tool is running
IdleSlack ==
    [pc |-> "idle", tool |-> None, env |-> None, name |-> <<>>,
     given |-> NoCursor, next_cursor |-> NoCursor, pages |-> <<>>,
     directory |-> <<>>, response |-> <<>>, responses |-> <<>>,
     listed |-> <<>>, names |-> <<>>, target |-> 0, api_calls |-> <<>>,
     raised |-> None, returned |-> <<>>]

\* No async_paginate call is in progress
IdlePaginate ==
    [pc |-> "idle", caller |-> None, channels |-> <<>>, limit |-> {},
     cursor |-> NoCursor, given |-> NoCursor, kwargs_cursor |-> {},
     results |-> <<>>, requests |-> <<>>, raised |-> None,
     returned |-> <<>>]

\* No Gmail tool is running
IdleGmail ==
    [pc |-> "idle", tool |-> None, mailbox |-> 0, n |-> 0, pending |-> <<>>,
     emails |-> <<>>, http_errors |-> 0, raised |-> None, returned |-> <<>>]

\* No free-slot computation has been asked for
IdleCalendar ==
    [pc |-> "idle", caller |-> None, business_start |-> 0,
     business_end |-> 0, busy |-> <<>>, busy_intervals |-> <<>>,
     free_slots |-> <<>>]

\* No coroutine has been scheduled
NoTasks ==
    /\ invocations = <<>>
    /\ slack = IdleSlack
    /\ paginate = IdlePaginate
    /\ gmail = IdleGmail
    /\ calendar = IdleCalendar

(***************************************************************************)
(* Bounds                                                                  *)
(***************************************************************************)
MaxCalls == 2

(***************************************************************************)
(* Actor construction                                                      *)
(***************************************************************************)
Secrets == {"s1", "s2"}
SecretArgs == {None, "s1"}
EnvValues == {None, "s2"}

PyBool(b) == IF b THEN "bool:True" ELSE "bool:False"

\* BaseActor._set_secret: the outcome is the secret, or "raise" for ValueError
BaseActor_set_secret(secret, disable_auth, environ) ==
    IF disable_auth THEN ""
    ELSE IF secret # None THEN secret
    ELSE IF environ # None THEN environ
    ELSE "raise"

\* BaseActor.__init__(secret, disable_auth): the fields of the new object
BaseActor_init(secret, disable_auth, environ) ==
    LET s == BaseActor_set_secret(secret, disable_auth, environ)
    IN  [constructed |-> s # "raise",
         disable_auth |-> disable_auth,
         secret |-> IF s = "raise" THEN None ELSE s]

\* FastAPIActor.__init__(app, *, disable_auth): super().__init__(disable_auth)
\* binds the flag to BaseActor.__init__'s first positional parameter, secret.
FastAPIActor_init(disable_auth, environ) ==
    BaseActor_init(PyBool(disable_auth), FALSE, environ)

(***************************************************************************)
(* Route registration                                                      *)
(***************************************************************************)
\* WorkerComponent.register of the three default components: the arguments
\* each passes to router.add_route (require_auth defaults to True)
CatalogComponent_register ==
    [endpoint_path |-> "tools", method |-> "GET", require_auth |-> TRUE]

CallToolComponent_register ==
    [endpoint_path |-> "tools/invoke", method |-> "POST", require_auth |-> TRUE]

HealthCheckComponent_register ==
    [endpoint_path |-> "health", method |-> "GET", require_auth |-> FALSE]

\* BaseActor.default_components, in the order register_routes takes them
default_components ==
    <<CatalogComponent_register, CallToolComponent_register,
      HealthCheckComponent_register>>

\* FastAPIRouter._wrap_handler: whether the wrapped handler depends on
\* validate_engine_request
use_auth_for_route(disable_auth, require_auth) ==
    ~disable_auth /\ require_auth

\* FastAPIRouter._wrap_handler: the definition of wrapped_handler evaluates
\* Depends(validate_engine_request) for a route that uses auth; the module
\* imports only FastAPI and Request and defines neither name, so that
\* evaluation raises NameError and no handler is returned
FastAPIRouter_wrap_handler(disable_auth, require_auth) ==
    IF use_auth_for_route(disable_auth, require_auth)
    THEN "NameError"
    ELSE "wrapped_handler"

\* FastAPIRouter.add_route: the exception that leaves it (None for none)
\* and the routes app.add_api_route has bound
FastAPIRouter_add_route(disable_auth, c) ==
    IF FastAPIRouter_wrap_handler(disable_auth, c.require_auth) = "NameError"
    THEN [exc |-> "NameError", routes |-> {}]
    ELSE [exc |-> None,
          routes |-> {[endpoint_path |-> c.endpoint_path,
                       method |-> c.method,
                       use_auth |-> use_auth_for_route(disable_auth,
                                                       c.require_auth)]}]

\* The loop of BaseActor.register_routes: it ends at the first component
\* whose register raises
RECURSIVE RegisterComponents(_, _, _)
RegisterComponents(disable_auth, components, bound) ==
    IF components = <<>> THEN [exc |-> None, routes |-> bound]
    ELSE LET r == FastAPIRouter_add_route(disable_auth, Head(components))
         IN  IF r.exc # None THEN [exc |-> r.exc, routes |-> bound]
             ELSE RegisterComponents(disable_auth, Tail(components),
                                     bound \cup r.routes)

\* BaseActor.register_routes
BaseActor_register_routes(disable_auth) ==
    RegisterComponents(disable_auth, default_components, {})

Route(path) == CHOOSE r \in routes : r.endpoint_path = path

(***************************************************************************)
(* Native callables registered with the actor                              *)
(***************************************************************************)
\* add(a: int, b: int) -> int and define(a: str, definition: str = ...) -> str
Callables == {"add", "define"}

\* ToolCallRequest.tool.get_fully_qualified_name(): name and version
FQName(c) == IF c = "add" THEN "Add@1" ELSE "Define@1"

ToolRefs == {"Add@1", "Define@1", "Add@2"}

InputKeys == {"a", "b", "definition"}

Parameters(c) == IF c = "add" THEN {"a", "b"} ELSE {"a", "definition"}

RequiredParameters(c) == IF c = "add" THEN {"a", "b"} ELSE {"a"}

\* Values of the declared return type a callable can return
ReturnValues(c) ==
    IF c = "add" THEN {"int:0", "int:5"} ELSE {"str:", "str:hi"}

\* A value that is not of the declared return type
WrongReturnValues(c) == IF c = "add" THEN {"str:hi"} ELSE {}

\* Python truth value of a value
Truthy(v) ==
    v \notin {"None", "int:0", "bool:False", "str:", "json:[]", "json:{}"}

\* The inputs of a request: for each key "absent", "ok" (a value of the
\* parameter's wire type) or "bad" (a value that cannot be coerced)
InputMaps ==
    [a : {"absent", "ok", "bad"}, b : {"absent", "ok"},
     definition : {"absent", "ok"}]

NoInputs == [a |-> "absent", b |-> "absent", definition |-> "absent"]

PresentKeys(inputs) == {k \in InputKeys : inputs[k] # "absent"}

(***************************************************************************)
(* Errors and the output factory                                           *)
(***************************************************************************)
NoError == [kind |-> None, wait_ms |-> {}]

\* RetryableToolError.__init__(message, developer_message,
\* additional_prompt_content, wait_ms): the exception the raise statement
\* ends with when the delay is passed under keyword kw; only wait_ms stores
\* it as the delay, a keyword that is no parameter is a TypeError
RetryableToolError_init(kw, ms) ==
    IF kw = "wait_ms"
    THEN [kind |-> "RetryableToolError", wait_ms |-> {ms}]
    ELSE IF kw \in {"message", "developer_message",
                    "additional_prompt_content"}
    THEN [kind |-> "RetryableToolError", wait_ms |-> {}]
    ELSE [kind |-> "TypeError", wait_ms |-> {}]

NoOutput ==
    [value |-> None, error |-> FALSE, can_retry |-> FALSE,
     retry_after_ms |-> {}]

\* ToolOutputFactory.success(data=...), data being the output model instance
\* whose field result holds the returned value
ToolOutputFactory_success(result) ==
    [value |-> IF Truthy(result) THEN result ELSE "str:",
     error |-> FALSE, can_retry |-> FALSE, retry_after_ms |-> {}]

\* ToolOutputFactory.fail
ToolOutputFactory_fail ==
    [value |-> None, error |-> TRUE, can_retry |-> FALSE,
     retry_after_ms |-> {}]

\* ToolOutputFactory.fail_retry
ToolOutputFactory_fail_retry(retry_after_ms) ==
    [value |-> None, error |-> TRUE, can_retry |-> TRUE,
     retry_after_ms |-> retry_after_ms]

(***************************************************************************)
(* The tool executor                                                       *)
(***************************************************************************)
\* Input validation: every required parameter present, every supplied
\* parameter coercible; keys that are no parameter are ignored
InputsValid(c, inputs) ==
    /\ \A p \in RequiredParameters(c) : inputs[p] # "absent"
    /\ \A p \in Parameters(c) : inputs[p] # "bad"

\* The raise statements a callable's body can end with: the error class,
\* and for RetryableToolError the keyword the delay is passed under
RaiseStatements ==
    [cls : {"ToolExecutionError", "ValueError"}, kw : {None}, ms : {{}}]
    \cup
    [cls : {"RetryableToolError"}, kw : {"wait_ms", "retry_after_ms"},
     ms : {{500}}]

NoRaise == [cls |-> None, kw |-> None, ms |-> {}]

\* The exception a raise statement ends with
Raised(stmt) ==
    IF stmt.cls = "RetryableToolError"
    THEN RetryableToolError_init(stmt.kw, CHOOSE m \in stmt.ms : TRUE)
    ELSE [kind |-> stmt.cls, wait_ms |-> {}]

\* What a native callable does when it is invoked
Behaviours(c) ==
    [kind : {"return"}, value : ReturnValues(c) \cup WrongReturnValues(c),
     stmt : {NoRaise}, exc : {NoError}]
    \cup
    {[kind |-> "raise", value |-> None, stmt |-> st, exc |-> Raised(st)] :
        st \in RaiseStatements}

NoBehaviour ==
    [kind |-> None, value |-> None, stmt |-> NoRaise, exc |-> NoError]

\* Wire serialization of a returned value into the output model: the value
\* itself when it is of the declared type, otherwise a ToolOutputError
SerializeOutput(c, v) ==
    IF v \in ReturnValues(c) THEN v ELSE "ToolOutputError"

\* The tool errors the executor classifies
ClassifiedErrors ==
    {"ToolExecutionError", "RetryableToolError", "ToolInputError",
     "ToolOutputError"}

\* ToolExecutor.run once the callable has behaved as b: a returned value is
\* serialized, a raised error is wrapped, whatever its class
ToolExecutor_output(c, b) ==
    IF b.kind = "return"
    THEN IF SerializeOutput(c, b.value) = "ToolOutputError"
         THEN ToolOutputFactory_fail
         ELSE ToolOutputFactory_success(SerializeOutput(c, b.value))
    ELSE IF b.exc.kind = "RetryableToolError"
         THEN ToolOutputFactory_fail_retry(b.exc.wait_ms)
         ELSE ToolOutputFactory_fail

(***************************************************************************)
(* State of the actor process                                              *)
(***************************************************************************)
NoActor ==
    [state |-> "none", kind |-> None, arg_secret |-> None,
     arg_disable_auth |-> FALSE, disable_auth |-> FALSE, secret |-> None,
     exc |-> None]

NoResponse ==
    [status |-> 0, kind |-> None, exc |-> None, success |-> FALSE,
     output |-> NoOutput, health |-> None, tool_count |-> 0, listing |-> {},
     health_keys |-> {}]

IdleRequest ==
    [pc |-> "idle", path |-> None, header |-> None, body |-> "none",
     tool |-> None, inputs |-> NoInputs, auth_checks |-> 0,
     component_ran |-> FALSE, target |-> None, behaviour |-> NoBehaviour,
     output |-> NoOutput, calls0 |-> [c \in Callables |-> 0],
     known |-> {}]

TotalCalls == calls["add"] + calls["define"]

InitActor ==
    /\ env \in EnvValues
    /\ actor = NoActor
    /\ routes = {}
    /\ catalog = <<>>
    /\ calls = [c \in Callables |-> 0]
    /\ req = IdleRequest
    /\ resp = NoResponse

\* An exception that leaves the wrapped handler: the transport answers 500
TransportError(exc) ==
    [NoResponse EXCEPT !.status = 500, !.kind = "error", !.exc = exc]

\* The answer of the app to a path on which add_api_route bound no handler
NotFound ==
    [NoResponse EXCEPT !.status = 404, !.kind = "not_found"]

(***************************************************************************)
(* Construction and registration                                           *)
(***************************************************************************)
\* FastAPIActor(app, disable_auth=...), or BaseActor(secret, disable_auth)
\* whose routes are then bound with FastAPIRouter(app, actor). An exception
\* of register_routes leaves FastAPIActor.__init__, so that no FastAPIActor
\* is constructed; the BaseActor is constructed before its routes are bound
Construct(kind, secret, disable_auth) ==
    /\ actor.state = "none"
    /\ kind = "FastAPIActor" => secret = None
    /\ LET obj == IF kind = "FastAPIActor"
                  THEN FastAPIActor_init(disable_auth, env)
                  ELSE BaseActor_init(secret, disable_auth, env)
           bound == BaseActor_register_routes(obj.disable_auth)
       IN  /\ actor' = [state |-> IF ~obj.constructed THEN "failed"
                                  ELSE IF kind = "FastAPIActor"
                                          /\ bound.exc # None
                                  THEN "failed"
                                  ELSE "ok",
                        kind |-> kind,
                        arg_secret |-> secret,
                        arg_disable_auth |-> disable_auth,
                        disable_auth |-> obj.disable_auth,
                        secret |-> obj.secret,
                        exc |-> IF ~obj.constructed THEN "ValueError"
                                ELSE bound.exc]
           /\ routes' = IF obj.constructed THEN bound.routes ELSE {}
    /\ UNCHANGED <<env, catalog, calls, req, resp, catalogVars, taskVars>>

\* arcade.actor.base.BaseActor(): an actor with an empty catalog and no
\* secret
ActorBase_BaseActor_init ==
    /\ actor.state = "none"
    /\ actor' = [NoActor EXCEPT !.state = "ok",
                                !.kind = "actor.base.BaseActor"]
    /\ UNCHANGED <<env, routes, catalog, calls, req, resp, catalogVars, taskVars>>

\* ToolCatalog.add_tool as BaseActor.register_tool calls it
ToolCatalog_add_tool(cat, c) ==
    [k \in DOMAIN cat \cup {FQName(c)} |->
        IF k = FQName(c) THEN c ELSE cat[k]]

\* BaseActor.register_tool (arcade.actor.base.BaseActor has none)
RegisterTool(c) ==
    /\ actor.state = "ok"
    /\ actor.kind \in {"FastAPIActor", "BaseActor"}
    /\ catalog' = ToolCatalog_add_tool(catalog, c)
    /\ UNCHANGED <<env, actor, routes, calls, req, resp, catalogVars, taskVars>>

\* ToolCatalog.add_toolkit: add_tool for every tool of the toolkit
RECURSIVE ToolCatalog_add_toolkit(_, _)
ToolCatalog_add_toolkit(cat, toolkit) ==
    IF toolkit = <<>> THEN cat
    ELSE ToolCatalog_add_toolkit(ToolCatalog_add_tool(cat, Head(toolkit)),
                                 Tail(toolkit))

\* The toolkits a program registers
Toolkits == {<<"add">>, <<"define">>, <<"add", "define">>}

\* BaseActor.register_toolkit (of either BaseActor), at any time between the
\* steps of the requests in flight
RegisterToolkit(toolkit) ==
    /\ actor.state = "ok"
    /\ actor.kind \in {"FastAPIActor", "BaseActor", "actor.base.BaseActor"}
    /\ catalog' = ToolCatalog_add_toolkit(catalog, toolkit)
    /\ UNCHANGED <<env, actor, routes, calls, req, resp, catalogVars, taskVars>>

\* arcade.actor.base.BaseActor.register_routes: the add_route calls of its
\* three components, on a router that records them
ActorBase_register_routes ==
    /\ actor.state = "ok"
    /\ actor.kind = "actor.base.BaseActor"
    /\ routes = {}
    /\ routes' = {[endpoint_path |-> "/catalog", method |-> "GET",
                   use_auth |-> FALSE],
                  [endpoint_path |-> "/invoke/<tool_name>", method |-> "POST",
                   use_auth |-> FALSE],
                  [endpoint_path |-> "/health", method |-> "GET",
                   use_auth |-> FALSE]}
    /\ UNCHANGED <<env, actor, catalog, calls, req, resp, catalogVars,
                   taskVars>>

\* The coroutines one event loop runs at a time
MaxTasks == 2

\* invocation_id of a ToolCallRequest
InvocationIds == {"i1", "i2"}

\* Inputs of the concurrent requests: complete for add, b missing, and an
\* input named like a keyword parameter of ToolExecutor.run
ConcurrentInputs ==
    {[a |-> "ok", b |-> "ok", definition |-> "absent"],
     [a |-> "ok", b |-> "absent", definition |-> "absent"],
     [a |-> "ok", b |-> "absent", definition |-> "ok"]}

\* A coroutine of call_tool or invoke_tool that has been scheduled and has
\* not run yet
ScheduledTask(request) ==
    [pc |-> "scheduled", request |-> request, target |-> None,
     behaviour |-> NoBehaviour, log |-> <<>>, raised |-> None,
     responses |-> <<>>]

\* The keyword parameters arcade.actor.base.BaseActor.invoke_tool passes to
\* ToolExecutor.run beside **inputs
ActorBase_ExecutorKeywords == {"func", "input_model", "output_model"}

\* The InvokeToolResponse of invoke_tool for the outcome of the executor:
\* ToolOutput(value=response.data.result) when response.code is 200,
\* otherwise ToolOutput(error=...); success is response.code == 200
InvokeToolResponse(c, valid, b) ==
    LET ok == /\ valid
              /\ b.kind = "return"
              /\ SerializeOutput(c, b.value) # "ToolOutputError"
    IN  [NoResponse EXCEPT
           !.status = 200, !.kind = "invoke", !.success = ok,
           !.output = IF ok
                      THEN [NoOutput EXCEPT
                              !.value = SerializeOutput(c, b.value)]
                      ELSE [NoOutput EXCEPT !.error = TRUE]]

\* The bare name of a qualified tool reference (tool_request.tool.name)
ToolName(tool_ref) ==
    IF tool_ref \in {"Add@1", "Add@2"} THEN "Add" ELSE "Define"

\* arcade.core.catalog.ToolCatalog.get_tool(name): the entries registered
\* under the bare name, whatever their version
CoreToolCatalog_get_tool(cat, name) == {k \in DOMAIN cat : ToolName(k) = name}

\* The requests invoke_tool is called with
InvokeToolRequests ==
    [invocation_id : {"i1"}, tool : ToolRefs, inputs : ConcurrentInputs]

\* arcade.actor.base.BaseActor.invoke_tool from its call to the await inside
\* ToolExecutor.run: the lookup by tool_request.tool.name alone, the keyword
\* binding of the call and the executor's input validation; a request whose
\* inputs are invalid is answered without suspending, and so is one with an
\* input that is no parameter of the callable: the call of the callable
\* fails before its body runs
ActorBase_invoke_tool_start(request) ==
    /\ actor.state = "ok"
    /\ actor.kind = "actor.base.BaseActor"
    /\ Len(invocations) < MaxTasks
    /\ LET task == ScheduledTask(request)
           found == CoreToolCatalog_get_tool(catalog,
                                            ToolName(request.tool))
           c == catalog[CHOOSE k \in found : TRUE]
       IN  invocations' = Append(invocations,
             IF found = {}
             THEN [task EXCEPT !.pc = "raised", !.raised = "ValueError",
                               !.log = <<"get_tool">>]
             ELSE IF PresentKeys(request.inputs)
                        \cap ActorBase_ExecutorKeywords # {}
             THEN [task EXCEPT !.pc = "raised", !.raised = "TypeError",
                               !.target = c,
                               !.log = <<"get_tool">>]
             ELSE IF ~InputsValid(c, request.inputs)
             THEN [task EXCEPT
                     !.pc = "returned",
                     !.target = c,
                     !.log = <<"get_tool", "validate", "finished_at">>,
                     !.responses =
                        <<InvokeToolResponse(c, FALSE, NoBehaviour)>>]
             ELSE IF ~(PresentKeys(request.inputs) \subseteq Parameters(c))
             THEN [task EXCEPT
                     !.pc = "returned",
                     !.target = c,
                     !.log = <<"get_tool", "validate", "invoke",
                               "finished_at">>,
                     !.responses =
                        <<InvokeToolResponse(c, FALSE, NoBehaviour)>>]
             ELSE [task EXCEPT
                     !.pc = "awaiting",
                     !.target = c,
                     !.log = <<"get_tool", "validate", "invoke">>])
    /\ UNCHANGED <<actorVars, catalogVars, slack, paginate, gmail, calendar>>

\* invoke_tool from the completion of the native callable to its return: the
\* executor wraps the outcome, and invoke_tool builds the InvokeToolResponse
ActorBase_invoke_tool_resume(t) ==
    /\ actor.kind = "actor.base.BaseActor"
    /\ t \in DOMAIN invocations
    /\ invocations[t].pc = "awaiting"
    /\ LET task == invocations[t]
       IN  /\ \E b \in Behaviours(task.target) :
                invocations' = [invocations EXCEPT ![t] =
                  [task EXCEPT
                     !.pc = "returned",
                     !.log = task.log \o <<"finished_at">>,
                     !.responses =
                        <<InvokeToolResponse(task.target, TRUE, b)>>]]
           /\ calls' = [calls EXCEPT ![task.target] = calls[task.target] + 1]
    /\ UNCHANGED <<env, actor, routes, catalog, req, resp, catalogVars,
                   slack, paginate, gmail, calendar>>

\* arcade.actor.base.BaseActor.health_check
ActorBase_health_check == [status |-> "healthy"]

\* The health check of arcade.actor.base.BaseActor is called
ActorBase_health_check_call ==
    /\ actor.state = "ok"
    /\ actor.kind = "actor.base.BaseActor"
    /\ resp' = [NoResponse EXCEPT
                  !.status = 200, !.kind = "health",
                  !.health = ActorBase_health_check.status,
                  !.health_keys = DOMAIN ActorBase_health_check]
    /\ UNCHANGED <<env, actor, routes, catalog, calls, req, catalogVars, taskVars>>

(***************************************************************************)
(* Generated endpoints (arcade.actor.core.generate): one POST route per    *)
(* tool, whose endpoint function awaits the executor inside try/except     *)
(***************************************************************************)
\* The path generate_endpoint binds the tool under: its name in Pascal case
EndpointPath(c) == IF c = "add" THEN "/Add" ELSE "/Define"

\* generate_endpoint(schemas): a router with the endpoint function of every
\* schema bound on its path
generate_endpoint(schemas) ==
    /\ actor.state = "none"
    /\ actor' = [NoActor EXCEPT !.state = "ok", !.kind = "APIRouter"]
    /\ routes' = {[endpoint_path |-> EndpointPath(schemas[i]),
                   method |-> "POST", use_auth |-> FALSE] :
                     i \in DOMAIN schemas}
    /\ UNCHANGED <<env, catalog, calls, req, resp, catalogVars, taskVars>>

\* What awaiting arcade.tool.executor.ToolExecutor.run ends with once the
\* callable has behaved as b: a ToolResponse (code 200 with the result, or a
\* failure), or, as the handlers of the endpoint function provide for, an
\* exception: the ValidationError of a value that does not fit the output
\* model, or the exception of the callable
EndpointExecutorOutcomes(c, b) ==
    IF b.kind = "return" /\ SerializeOutput(c, b.value) # "ToolOutputError"
    THEN {[kind |-> "response", code |-> 200,
           result |-> SerializeOutput(c, b.value), exc |-> None]}
    ELSE {[kind |-> "response", code |-> 500, result |-> None, exc |-> None],
          [kind |-> "raise", code |-> 0, result |-> None,
           exc |-> IF b.kind = "return" THEN "ValidationError"
                   ELSE b.exc.kind]}

\* The answer of the app when the endpoint function returns a ToolResponse
EndpointResponse(code, result) ==
    [NoResponse EXCEPT
       !.status = 200, !.kind = "tool_response", !.success = (code = 200),
       !.output = IF code = 200 THEN [NoOutput EXCEPT !.value = result]
                  ELSE [NoOutput EXCEPT !.error = TRUE]]

\* The try statement of the endpoint function: the response of the executor,
\* tool_response.fail(msg) for a ValidationError, and for any other
\* Exception tool_response.fail(msg, data=traceback.format_exc()), whose
\* data is no instance of the output model: the route's response_model
\* rejects it and the app answers 500
create_endpoint_function_run(outcome) ==
    IF outcome.kind = "response"
    THEN EndpointResponse(outcome.code, outcome.result)
    ELSE IF outcome.exc = "ValidationError"
    THEN EndpointResponse(500, None)
    ELSE TransportError("ResponseValidationError")

\* The bodies a client posts on a generated route: the concurrent inputs and
\* one whose a is of the wrong wire type
EndpointInputs ==
    ConcurrentInputs \cup {[a |-> "bad", b |-> "ok", definition |-> "absent"]}

\* Validation of a body against the input model create_func_models builds:
\* every field has a default (None for a parameter without one), so that a
\* missing key is accepted, as is a key that is no field
EndpointInputsValid(c, inputs) == \A p \in Parameters(c) : inputs[p] # "bad"

\* The answer of the app to a body that does not validate against the input
\* model of Depends(get_input_model): the endpoint function is not called
RequestValidationResponse ==
    [NoResponse EXCEPT !.status = 422, !.kind = "error",
                       !.exc = "RequestValidationError"]

\* A request on the route of tool c: the dependency get_input_model, a plain
\* function the app runs in a worker thread while the coroutine of the
\* request is suspended
create_endpoint_function_get_input_model(c, inputs) ==
    /\ actor.kind = "APIRouter"
    /\ EndpointPath(c) \in {r.endpoint_path : r \in routes}
    /\ Len(invocations) < MaxTasks
    /\ LET task == [ScheduledTask([invocation_id |-> None,
                                   tool |-> FQName(c),
                                   inputs |-> inputs])
                      EXCEPT !.target = c]
       IN  invocations' = Append(invocations,
             IF ~EndpointInputsValid(c, inputs)
             THEN [task EXCEPT
                     !.pc = "returned",
                     !.log = <<"get_input_model">>,
                     !.responses = <<RequestValidationResponse>>]
             ELSE [task EXCEPT
                     !.pc = "depends",
                     !.log = <<"get_input_model">>])
    /\ UNCHANGED <<actorVars, catalogVars, slack, paginate, gmail, calendar>>

\* The endpoint function from its first statement to the await inside
\* ToolExecutor.run: it reads the body again and calls the executor, which
\* invokes the callable
create_endpoint_function_run_start(t) ==
    /\ actor.kind = "APIRouter"
    /\ t \in DOMAIN invocations
    /\ invocations[t].pc = "depends"
    /\ invocations' = [invocations EXCEPT ![t] =
          [@ EXCEPT !.pc = "awaiting", !.log = @ \o <<"json", "invoke">>]]
    /\ UNCHANGED <<actorVars, catalogVars, slack, paginate, gmail, calendar>>

\* The endpoint function from the completion of the callable to its return,
\* and the answer of the app
create_endpoint_function_run_resume(t) ==
    /\ actor.kind = "APIRouter"
    /\ t \in DOMAIN invocations
    /\ invocations[t].pc = "awaiting"
    /\ LET task == invocations[t]
       IN  /\ \E b \in Behaviours(task.target) :
                \E outcome \in EndpointExecutorOutcomes(task.target, b) :
                   LET answer == create_endpoint_function_run(outcome)
                   IN  invocations' = [invocations EXCEPT ![t] =
                         [task EXCEPT
                            !.pc = IF answer.status = 200 THEN "returned"
                                   ELSE "raised",
                            !.behaviour = b,
                            !.raised = answer.exc,
                            !.log = task.log \o
                                    (IF outcome.kind = "raise"
                                     THEN <<"except">> ELSE <<>>),
                            !.responses = <<answer>>]]
           /\ calls' = [calls EXCEPT ![task.target] = calls[task.target] + 1]
    /\ UNCHANGED <<env, actor, routes, catalog, req, resp, catalogVars,
                   slack, paginate, gmail, calendar>>

(***************************************************************************)
(* Serving a request                                                       *)
(***************************************************************************)
\* The app of the actor receives a request: it hands the request to the
\* wrapped handler bound on its path (every bound handler has the default
\* None for its second parameter, so that no dependency is resolved), and
\* answers not found when add_api_route has bound none
Receive(path, header, body, tool, inputs) ==
    /\ actor.state # "none"
    /\ actor.kind \in {"FastAPIActor", "BaseActor"}
    /\ req.pc \in {"idle", "done"}
    /\ TotalCalls < MaxCalls
    /\ IF path \in {r.endpoint_path : r \in routes}
       THEN /\ req' = [IdleRequest EXCEPT
                         !.pc = "handler",
                         !.path = path, !.header = header, !.body = body,
                         !.tool = tool, !.inputs = inputs, !.calls0 = calls]
            /\ resp' = NoResponse
       ELSE /\ req' = [IdleRequest EXCEPT
                         !.pc = "done",
                         !.path = path, !.header = header, !.body = body,
                         !.tool = tool, !.inputs = inputs, !.calls0 = calls]
            /\ resp' = NotFound
    /\ UNCHANGED <<env, actor, routes, catalog, calls, catalogVars, taskVars>>

\* FastAPIRouter._wrap_handler.wrapped_handler: json.loads of a body that is
\* not empty, then RequestData(body_json=...), whose field body_json is
\* dict | None
WrappedHandler ==
    /\ req.pc = "handler"
    /\ IF req.body = "badjson"
       THEN /\ req' = [req EXCEPT !.pc = "done"]
            /\ resp' = TransportError("JSONDecodeError")
       ELSE IF req.body = "nonobject"
       THEN /\ req' = [req EXCEPT !.pc = "done"]
            /\ resp' = TransportError("ValidationError")
       ELSE /\ req' = [req EXCEPT !.pc = "component"]
            /\ resp' = resp
    /\ UNCHANGED <<env, actor, routes, catalog, calls, catalogVars, taskVars>>

\* BaseActor.get_catalog
BaseActor_get_catalog == DOMAIN catalog

\* CatalogComponent.__call__
CatalogComponent_call ==
    /\ req.pc = "component"
    /\ req.path = "tools"
    /\ req' = [req EXCEPT !.pc = "done", !.component_ran = TRUE]
    /\ resp' = [NoResponse EXCEPT !.status = 200, !.kind = "catalog",
                                  !.listing = BaseActor_get_catalog]
    /\ UNCHANGED <<env, actor, routes, catalog, calls, catalogVars, taskVars>>

\* BaseActor.health_check
BaseActor_health_check ==
    [status |-> "ok", tool_count |-> Cardinality(DOMAIN catalog)]

\* HealthCheckComponent.__call__
HealthCheckComponent_call ==
    /\ req.pc = "component"
    /\ req.path = "health"
    /\ req' = [req EXCEPT !.pc = "done", !.component_ran = TRUE]
    /\ resp' = [NoResponse EXCEPT
                  !.status = 200, !.kind = "health",
                  !.health = BaseActor_health_check.status,
                  !.tool_count = BaseActor_health_check.tool_count,
                  !.health_keys = DOMAIN BaseActor_health_check]
    /\ UNCHANGED <<env, actor, routes, catalog, calls, catalogVars, taskVars>>

\* CallToolComponent.__call__: ToolCallRequest.model_validate(body_json)
CallToolComponent_call ==
    /\ req.pc = "component"
    /\ req.path = "tools/invoke"
    /\ IF req.body = "invalid"
       THEN /\ req' = [req EXCEPT !.pc = "done", !.component_ran = TRUE]
            /\ resp' = TransportError("ValidationError")
       ELSE /\ req' = [req EXCEPT !.pc = "call_tool", !.component_ran = TRUE]
            /\ resp' = resp
    /\ UNCHANGED <<env, actor, routes, catalog, calls, catalogVars, taskVars>>

\* The keyword parameters ToolExecutor.run is called with beside **inputs
ExecutorKeywords ==
    {"func", "definition", "input_model", "output_model", "context"}

\* BaseActor.call_tool up to the call of ToolExecutor.run: the catalog lookup
\* and the keyword arguments func=..., definition=..., **inputs
BaseActor_call_tool_lookup ==
    /\ req.pc = "call_tool"
    /\ IF req.tool \notin DOMAIN catalog
       THEN /\ req' = [req EXCEPT !.pc = "done", !.known = DOMAIN catalog]
            /\ resp' = TransportError("ValueError")
       ELSE IF PresentKeys(req.inputs) \cap ExecutorKeywords # {}
       THEN /\ req' = [req EXCEPT !.pc = "done", !.known = DOMAIN catalog]
            /\ resp' = TransportError("TypeError")
       ELSE /\ req' = [req EXCEPT !.pc = "executor",
                                  !.known = DOMAIN catalog,
                                  !.target = catalog[req.tool]]
            /\ resp' = resp
    /\ UNCHANGED <<env, actor, routes, catalog, calls, catalogVars, taskVars>>

\* ToolExecutor.run: the inputs fail validation, the callable is not invoked
ToolExecutor_run_reject ==
    /\ req.pc = "executor"
    /\ ~InputsValid(req.target, req.inputs)
    /\ req' = [req EXCEPT !.pc = "respond", !.output = ToolOutputFactory_fail]
    /\ UNCHANGED <<env, actor, routes, catalog, calls, resp, catalogVars, taskVars>>

\* ToolExecutor.run: the callable is invoked and its outcome wrapped
ToolExecutor_run_invoke ==
    /\ req.pc = "executor"
    /\ InputsValid(req.target, req.inputs)
    /\ \E b \in Behaviours(req.target) :
          req' = [req EXCEPT !.pc = "respond", !.behaviour = b,
                             !.output = ToolExecutor_output(req.target, b)]
    /\ calls' = [calls EXCEPT ![req.target] = calls[req.target] + 1]
    /\ UNCHANGED <<env, actor, routes, catalog, resp, catalogVars, taskVars>>

\* ToolCallResponse.success as BaseActor.call_tool computes it
ToolCallResponse_success(output) == ~output.error

\* BaseActor.call_tool after ToolExecutor.run: the ToolCallResponse
BaseActor_call_tool_respond ==
    /\ req.pc = "respond"
    /\ req' = [req EXCEPT !.pc = "done"]
    /\ resp' = [NoResponse EXCEPT
                  !.status = 200, !.kind = "invoke",
                  !.success = ToolCallResponse_success(req.output),
                  !.output = req.output]
    /\ UNCHANGED <<env, actor, routes, catalog, calls, catalogVars, taskVars>>

\* The requests a client sends. The body of a request is empty ("none"),
\* no JSON ("badjson"), JSON that is neither an object nor null
\* ("nonobject"), an object that is no ToolCallRequest ("invalid": so is
\* the empty body, read as {}), or a ToolCallRequest ("ok")
Messages ==
    [path : {"tools", "health"}, body : {"none", "badjson", "nonobject"},
     tool : {None}, inputs : {NoInputs}]
    \cup
    [path : {"tools/invoke"}, body : {"badjson", "nonobject", "invalid"},
     tool : {None}, inputs : {NoInputs}]
    \cup
    [path : {"tools/invoke"}, body : {"ok"}, tool : ToolRefs,
     inputs : InputMaps]

Next ==
    \/ \E kind \in {"FastAPIActor", "BaseActor"}, s \in SecretArgs,
          d \in BOOLEAN : Construct(kind, s, d)
    \/ ActorBase_BaseActor_init
    \/ \E c \in Callables : RegisterTool(c)
    \/ \E toolkit \in Toolkits : RegisterToolkit(toolkit)
    \/ ActorBase_register_routes
    \/ \E request \in InvokeToolRequests :
          ActorBase_invoke_tool_start(request)
    \/ \E t \in 1..MaxTasks : ActorBase_invoke_tool_resume(t)
    \/ ActorBase_health_check_call
    \/ \E schemas \in Toolkits : generate_endpoint(schemas)
    \/ \E c \in Callables, inputs \in EndpointInputs :
          create_endpoint_function_get_input_model(c, inputs)
    \/ \E t \in 1..MaxTasks : create_endpoint_function_run_start(t)
    \/ \E t \in 1..MaxTasks : create_endpoint_function_run_resume(t)
    \/ \E header \in {None} \cup Secrets, m \in Messages :
          Receive(m.path, header, m.body, m.tool, m.inputs)
    \/ WrappedHandler
    \/ CatalogComponent_call
    \/ HealthCheckComponent_call
    \/ CallToolComponent_call
    \/ BaseActor_call_tool_lookup
    \/ ToolExecutor_run_reject
    \/ ToolExecutor_run_invoke
    \/ BaseActor_call_tool_respond

Init ==
    /\ InitActor
    /\ toolpack = <<>>
    /\ tools = <<>>
    /\ order = <<>>
    /\ loading = "done"
    /\ registered = <<>>
    /\ NoTasks

Spec == Init /\ [][Next]_vars

(***************************************************************************)
(* Properties of the dispatch layer and the invocation path                *)
(***************************************************************************)
\* The request in hand has reached the invoke operation and carries a
\* ToolCallRequest naming a tool that was registered when call_tool looked
\* it up (req.known holds the names the catalog had at the lookup)
Invoked ==
    /\ req.path = "tools/invoke"
    /\ req.body = "ok"
    /\ req.tool \in req.known
    /\ req.pc = "done"
    /\ resp.status \notin {401, 404}

\* C1: on an actor with authentication enabled, an invoke request with no
\* secret or a wrong one is answered unauthorized; the component body and
\* the native callable are not run (the call counters keep their values);
\* the check runs once per request, before any component logic.
C1_WrongSecretUnauthorized ==
    (req.path = "tools/invoke" /\ ~actor.disable_auth)
    => /\ req.component_ran => req.auth_checks = 1
       /\ req.pc \notin {"idle", "auth"} => req.auth_checks = 1
       /\ (req.header = None \/ req.header # actor.secret)
          => /\ ~req.component_ran
             /\ calls = req.calls0
             /\ req.pc \in {"auth", "done"}
             /\ req.pc = "done"
                => resp.status = 401 /\ resp.kind = "unauthorized"

\* C2: invoking a registered tool with a required input missing yields one
\* response with success=false and can_retry=false, and the native callable
\* is not invoked.
C2_MissingRequiredInputRejected ==
    (Invoked /\ \E p \in RequiredParameters(catalog[req.tool]) :
                    req.inputs[p] = "absent")
    => /\ resp.status = 200 /\ resp.kind = "invoke"
       /\ ~resp.success
       /\ resp.output.error /\ ~resp.output.can_retry
       /\ calls = req.calls0

C4_RetryAfterCarried ==
    (req.pc = "done"
     /\ req.behaviour.kind = "raise"
     /\ req.behaviour.stmt.cls = "RetryableToolError"
     /\ req.behaviour.stmt.kw = "retry_after_ms")
    => /\ resp.output.error
       /\ resp.output.can_retry
       /\ resp.output.retry_after_ms = req.behaviour.stmt.ms

\* C5: invoking a registered tool with all required inputs present and of
\* the correct wire types yields success=true and an output value equal to
\* the wire-serialized form of the returned value, for every value of the
\* declared return type.
C5_SuccessCarriesValue ==
    (Invoked
     /\ InputsValid(catalog[req.tool], req.inputs)
     /\ req.behaviour.kind = "return"
     /\ req.behaviour.value \in ReturnValues(catalog[req.tool]))
    => /\ resp.success
       /\ resp.output.value
            = SerializeOutput(catalog[req.tool], req.behaviour.value)

\* C6: on an actor with authentication enabled, a health request without
\* authorization header (and without body) is answered by the health
\* component with status "ok" and the tool count; the auth gate is never
\* applied to the health route, whatever the actor's configuration.
C6_HealthNeverGated ==
    /\ \A r \in routes : r.endpoint_path = "health" => ~r.use_auth
    /\ req.path = "health" => req.auth_checks = 0
    /\ (req.path = "health" /\ req.header = None /\ req.body = "none"
        /\ actor.state = "ok" /\ ~actor.arg_disable_auth
        /\ req.pc = "done")
       => /\ req.component_ran
          /\ resp.status = 200 /\ resp.kind = "health"
          /\ resp.health = "ok"
          /\ resp.tool_count = Cardinality(DOMAIN catalog)

\* C7: construction resolves the secret to the explicit argument if given,
\* otherwise to the environment variable; with neither, and authentication
\* not disabled, construction fails, so no actor with authentication
\* enabled and no secret serves a request.
C7_SecretResolvedOrFatal ==
    (actor.state # "none" /\ actor.kind # "actor.base.BaseActor")
    => LET given == IF actor.arg_secret # None THEN actor.arg_secret ELSE env
       IN  IF actor.arg_disable_auth THEN actor.state = "ok"
           ELSE IF given = None THEN actor.state = "failed"
           ELSE actor.state = "ok" /\ actor.secret = given

\* C8: the invoke route is auth-gated on every actor except one constructed
\* with authentication disabled: such an actor lets an invoke request
\* without a secret reach the component, and any other actor never does.
C8_InvokeGatedUnlessDisabled ==
    (req.path = "tools/invoke" /\ req.header = None /\ req.body = "ok"
     /\ req.pc = "done")
    => (req.component_ran <=> actor.arg_disable_auth)

\* C9: an invoke request naming a tool that is not in the catalog ends in a
\* transport-level error without invoking a callable; and that outcome
\* occurs only for a malformed body or an unknown tool.
C9_TransportErrorOnlyUnknownOrMalformed ==
    (req.path = "tools/invoke" /\ req.pc = "done"
     /\ resp.status \notin {401, 404})
    => /\ (req.body = "ok" /\ req.tool \notin req.known)
          => resp.status = 500 /\ calls = req.calls0
       /\ resp.status = 500
          => \/ req.body \in {"badjson", "nonobject", "invalid"}
             \/ req.tool \notin req.known

(***************************************************************************)
(* ToolCatalog built from a lock file (arcade.tool.catalog)                *)
(*                                                                         *)
(* Names are sequences of characters so that the case conversion is        *)
(* computed, not assumed.                                                  *)
(***************************************************************************)
MaxLockEntries == 2

Upper(ch) == IF ch = "a" THEN "A" ELSE IF ch = "b" THEN "B" ELSE ch

Lower(ch) == IF ch = "A" THEN "a" ELSE IF ch = "B" THEN "b" ELSE ch

\* str.split("_")
RECURSIVE SplitUnderscore(_)
SplitUnderscore(s) ==
    IF s = <<>> THEN << <<>> >>
    ELSE LET rest == SplitUnderscore(Tail(s))
         IN  IF Head(s) = "_"
             THEN << <<>> >> \o rest
             ELSE << <<Head(s)>> \o Head(rest) >> \o Tail(rest)

\* str.capitalize()
Capitalize(x) ==
    IF x = <<>> THEN <<>>
    ELSE <<Upper(x[1])>> \o [i \in 1..(Len(x) - 1) |-> Lower(x[i + 1])]

RECURSIVE JoinCapitalized(_)
JoinCapitalized(parts) ==
    IF parts = <<>> THEN <<>>
    ELSE (IF Capitalize(Head(parts)) = <<>> THEN <<"_">>
          ELSE Capitalize(Head(parts)))
         \o JoinCapitalized(Tail(parts))

\* "".join(x.capitalize() or "_" for x in name.split("_"))
snake_to_pascal_case(name) == JoinCapitalized(SplitUnderscore(name))

(***************************************************************************)
(* Schema inference (arcade.tool.catalog)                                  *)
(*                                                                         *)
(* A native type is [args, none]: typing.Union of the args, and of None    *)
(* when none is TRUE; a type that is not a Union has one arg and none =    *)
(* FALSE. An arg is a class or a typing form, named by its Python source.  *)
(***************************************************************************)
MaxParams == 2

WireTypes == {"string", "integer", "float", "boolean", "json"}

\* Classes and typing forms a signature names; Model is a subclass of
\* pydantic.BaseModel
NativeTypes ==
    {"str", "bool", "int", "float", "dict", "list", "BaseModel", "Model",
     "list[str]", "set", "set[int]", "tuple[int,str]",
     "Literal['a','b']", "Literal[1,2]"}

Plain(x) == [args |-> <<x>>, none |-> FALSE]

\* typing.Optional[x]: Union[x, None]
OptionalOf(x) == [args |-> <<x>>, none |-> TRUE]

\* get_origin(t) is Union
IsUnion(t) == Len(t.args) > 1 \/ t.none

\* "Unwrap Optional types": the first arg that is not type(None)
UnwrapOptional(t) ==
    IF IsUnion(t) /\ t.none
    THEN [field_type |-> Plain(t.args[1]), is_optional |-> TRUE]
    ELSE [field_type |-> t, is_optional |-> FALSE]

\* The forms that have an __origin__ attribute, and its value
GenericOrigin(x) ==
    CASE x = "list[str]" -> "list"
      [] x = "set[int]" -> "set"
      [] x = "tuple[int,str]" -> "tuple"
      [] x = "Literal['a','b']" -> "Literal"
      [] x = "Literal[1,2]" -> "Literal"
      [] OTHER -> None

\* is_string_literal: a Literal all of whose args are strings
is_string_literal(t) == ~IsUnion(t) /\ t.args[1] = "Literal['a','b']"

\* get_args of a string Literal, as enum values
LiteralArgs(t) == <<"a", "b">>

\* the dict type_mapping of get_wire_type
type_mapping ==
    [x \in {"str", "bool", "int", "float", "dict", "list", "BaseModel"} |->
        CASE x = "str" -> "string"
          [] x = "bool" -> "boolean"
          [] x = "int" -> "integer"
          [] x = "float" -> "float"
          [] OTHER -> "json"]

\* get_wire_type: the wire type, None where the function falls off its
\* elif chain, or the exception it raises
get_wire_type(t) ==
    IF IsUnion(t)
    THEN \* Union has an __origin__ that is neither list nor dict
         [error |-> None, wire_type |-> None]
    ELSE LET x == t.args[1]
         IN  IF x \in DOMAIN type_mapping
             THEN [error |-> None, wire_type |-> type_mapping[x]]
             ELSE IF GenericOrigin(x) # None
             THEN [error |-> None,
                   wire_type |-> IF GenericOrigin(x) \in {"list", "dict"}
                                 THEN "json" ELSE None]
             ELSE IF x = "None"
             THEN \* issubclass(None, BaseModel): the value None is no class
                  [error |-> "TypeError", wire_type |-> None]
             ELSE IF x = "Model"
             THEN [error |-> None, wire_type |-> "json"]
             ELSE \* any other class, the class NoneType among them
                  [error |-> "ToolDefinitionError", wire_type |-> None]

\* ValueSchema(val_type=..., enum=...): val_type is one of the wire types
ValueSchema_init(val_type, enum) ==
    [error |-> IF val_type \in WireTypes THEN None ELSE "ValidationError",
     val_type |-> val_type,
     enum |-> enum]

\* The text annotations and another metadata object of Annotated[...]
TextAnnotations == {"t1", "t2", "t3"}

\* BaseParamAnnotation.__class_getitem__: Inferrable[t, ...] and
\* Opaque[t, ...] evaluate to the plain Annotated alias
BaseParamAnnotation_class_getitem(origin, metadata) ==
    [form |-> "Annotated", type |-> origin, metadata |-> metadata]

\* The annotation object the signature holds for an annotation expression
AnnotationObject(a) ==
    IF a.form \in {"Inferrable", "Opaque"}
    THEN BaseParamAnnotation_class_getitem(a.type, a.metadata)
    ELSE a

\* Instances of Inferrable: BaseParamAnnotation.__new__ raises TypeError
InferrableInstances == {}

\* first_or_none(_type, iterable): {} for None
RECURSIVE first_or_none(_, _)
first_or_none(instances, iterable) ==
    IF iterable = <<>> THEN {}
    ELSE IF Head(iterable) \in instances THEN {Head(iterable)}
    ELSE first_or_none(instances, Tail(iterable))

NoFieldInfo ==
    [name |-> None, description |-> None, default |-> None,
     optional |-> FALSE, inferrable |-> TRUE,
     field_type |-> Plain("str"), wire_type |-> None]

\* extract_regular_field_info
extract_regular_field_info(param) ==
    LET u == UnwrapOptional(AnnotationObject(param.annotation).type)
    IN  [name |-> param.name,
         description |-> None,
         default |-> IF param.default.kind # "empty"
                     THEN param.default.default ELSE None,
         optional |-> u.is_optional,
         inferrable |-> TRUE,
         field_type |-> u.field_type,
         wire_type |-> None]

\* Reading the Field(...) default as if the parameter had no default
extract_pydantic_field_info_undefaulted(param) ==
    LET u == UnwrapOptional(AnnotationObject(param.annotation).type)
    IN  [name |-> param.name,
         description |-> param.default.description,
         default |-> None,
         optional |-> u.is_optional,
         inferrable |-> TRUE,
         field_type |-> u.field_type,
         wire_type |-> None]

\* extract_pydantic_field_info
extract_pydantic_field_info(param) ==
    LET is_required == param.default.default = "PydanticUndefined"
        u == UnwrapOptional(AnnotationObject(param.annotation).type)
    IN  [name |-> param.name,
         description |-> param.default.description,
         default |-> IF param.default.default = "PydanticUndefined"
                     THEN None ELSE param.default.default,
         optional |-> u.is_optional \/ ~is_required,
         inferrable |-> TRUE,
         field_type |-> u.field_type,
         wire_type |-> None]

\* Ignoring the text annotations beyond the second
extract_field_info_lenient(param) ==
    LET annotation == AnnotationObject(param.annotation)
        field_info == IF param.default.kind = "FieldInfo"
                      THEN extract_pydantic_field_info(param)
                      ELSE extract_regular_field_info(param)
        str_annotations ==
            SelectSeq(annotation.metadata, LAMBDA m : m \in TextAnnotations)
        w == IF is_string_literal(field_info.field_type)
             THEN get_wire_type(Plain("str"))
             ELSE get_wire_type(field_info.field_type)
    IN  IF annotation.form = "empty"
        THEN [error |-> "TypeError", info |-> NoFieldInfo]
        ELSE IF w.error # None
        THEN [error |-> w.error, info |-> NoFieldInfo]
        ELSE [error |-> None,
              info |-> [field_info EXCEPT
                 !.name = IF Len(str_annotations) >= 2
                          THEN str_annotations[1] ELSE @,
                 !.description =
                          IF Len(str_annotations) = 0 THEN @
                          ELSE str_annotations[Len(str_annotations)],
                 !.wire_type = w.wire_type]]

\* extract_field_info: the ToolFieldInfo of a parameter or the exception
extract_field_info(param) ==
    LET annotation == AnnotationObject(param.annotation)
        field_info == IF param.default.kind = "FieldInfo"
                      THEN extract_pydantic_field_info(param)
                      ELSE extract_regular_field_info(param)
        metadata == annotation.metadata
        str_annotations ==
            SelectSeq(metadata, LAMBDA m : m \in TextAnnotations)
        inferrable_annotation ==
            first_or_none(InferrableInstances, <<annotation.type>> \o metadata)
        w == IF is_string_literal(field_info.field_type)
             THEN get_wire_type(Plain("str"))
             ELSE get_wire_type(field_info.field_type)
    IN  IF annotation.form = "empty"
        THEN [error |-> "TypeError", info |-> NoFieldInfo]
        ELSE IF Len(str_annotations) > 2
        THEN [error |-> "ToolDefinitionError", info |-> NoFieldInfo]
        ELSE IF w.error # None
        THEN [error |-> w.error, info |-> NoFieldInfo]
        ELSE [error |-> None,
              info |-> [field_info EXCEPT
                 !.name = IF Len(str_annotations) = 2
                          THEN str_annotations[1] ELSE @,
                 !.description =
                          IF Len(str_annotations) = 1 THEN str_annotations[1]
                          ELSE IF Len(str_annotations) = 2
                          THEN str_annotations[2] ELSE @,
                 !.inferrable =
                          IF inferrable_annotation # {}
                          THEN (CHOOSE m \in inferrable_annotation : TRUE)
                                 = "Inferrable(True)"
                          ELSE TRUE,
                 !.wire_type = w.wire_type]]

\* The InputParameter create_input_definition builds from a ToolFieldInfo,
\* or the exception of the missing description or of ValueSchema
InputParameter_of(tool_field_info) ==
    LET is_enum == is_string_literal(tool_field_info.field_type)
        value_schema ==
            ValueSchema_init(tool_field_info.wire_type,
                             IF is_enum
                             THEN {LiteralArgs(tool_field_info.field_type)}
                             ELSE {})
    IN  IF tool_field_info.description = None
        THEN [error |-> "ToolDefinitionError", parameter |-> {}]
        ELSE IF value_schema.error # None
        THEN [error |-> value_schema.error, parameter |-> {}]
        ELSE [error |-> None,
              parameter |->
                {[name |-> tool_field_info.name,
                  description |-> tool_field_info.description,
                  required |-> tool_field_info.default = None
                               /\ ~tool_field_info.optional,
                  inferrable |-> tool_field_info.inferrable,
                  value_schema |-> [val_type |-> value_schema.val_type,
                                    enum |-> value_schema.enum]]}]

\* The loop of create_input_definition over the parameters
RECURSIVE InputParameters(_)
InputParameters(params) ==
    IF params = <<>> THEN [error |-> None, parameters |-> <<>>]
    ELSE LET f == extract_field_info(Head(params))
             p == InputParameter_of(f.info)
         IN  IF f.error # None
             THEN [error |-> f.error, parameters |-> <<>>]
             ELSE IF p.error # None
             THEN [error |-> p.error, parameters |-> <<>>]
             ELSE LET rest == InputParameters(Tail(params))
                  IN  IF rest.error # None THEN rest
                      ELSE [error |-> None,
                            parameters |->
                              <<CHOOSE x \in p.parameter : TRUE>>
                              \o rest.parameters]

\* Leaving out the parameters that have a default
create_input_definition_skipping(func) ==
    InputParameters(SelectSeq(func.params,
                              LAMBDA p : p.default.kind = "empty"))

\* create_input_definition
create_input_definition(func) == InputParameters(func.params)

NoToolOutput ==
    [description |-> None, available_modes |-> <<>>, value_schema |-> {}]

\* return_type after the unwrapping of an Annotated alias: its __origin__,
\* which for Annotated[None, ...] is the class NoneType, not the value None
\* of the bare annotation
AnnotatedOrigin(ret) ==
    IF ret.form = "Annotated" /\ ret.type = Plain("None")
    THEN Plain("NoneType")
    ELSE ret.type

\* Offering the null mode for every annotated return type
create_output_definition_nullable(func) ==
    LET ret == func.ret
        u == UnwrapOptional(AnnotatedOrigin(ret))
        w == get_wire_type(u.field_type)
        value_schema == ValueSchema_init(w.wire_type, {})
    IN  IF ret.form = "empty"
        THEN [error |-> None,
              output |-> [description |-> "No description provided.",
                          available_modes |-> <<"null">>,
                          value_schema |-> {}]]
        ELSE IF w.error # None
        THEN [error |-> w.error, output |-> NoToolOutput]
        ELSE IF value_schema.error # None
        THEN [error |-> value_schema.error, output |-> NoToolOutput]
        ELSE [error |-> None,
              output |-> [description |-> "No description provided.",
                          available_modes |-> <<"value", "error", "null">>,
                          value_schema |->
                            {[val_type |-> value_schema.val_type,
                              enum |-> value_schema.enum]}]]

\* create_output_definition
create_output_definition(func) ==
    LET ret == func.ret
        description == IF ret.form = "Annotated"
                       THEN (IF ret.metadata # <<>> THEN ret.metadata[1]
                             ELSE None)
                       ELSE "No description provided."
        u == UnwrapOptional(AnnotatedOrigin(ret))
        w == get_wire_type(u.field_type)
        value_schema == ValueSchema_init(w.wire_type, {})
    IN  IF ret.form = "empty"
        THEN [error |-> None,
              output |-> [description |-> "No description provided.",
                          available_modes |-> <<"null">>,
                          value_schema |-> {}]]
        ELSE IF w.error # None
        THEN [error |-> w.error, output |-> NoToolOutput]
        ELSE IF value_schema.error # None
        THEN [error |-> value_schema.error, output |-> NoToolOutput]
        ELSE [error |-> None,
              output |-> [description |-> description,
                          available_modes |->
                            IF u.is_optional
                            THEN <<"value", "error", "null">>
                            ELSE <<"value", "error">>,
                          value_schema |->
                            {[val_type |-> value_schema.val_type,
                              enum |-> value_schema.enum]}]]

\* determine_output_model: "model", or None where an Annotated return type
\* has a falsy description and the function falls off its branches
determine_output_model(func) ==
    LET ret == func.ret
    IN  IF ret.form = "empty" THEN "model"
        ELSE IF ret.form = "Annotated"
        THEN (IF ret.metadata # <<>> /\ ret.metadata[1] # ""
              THEN "model" ELSE None)
        ELSE "model"

\* The loop of create_func_models over the parameters
RECURSIVE InputFields(_)
InputFields(params) ==
    IF params = <<>> THEN None
    ELSE IF extract_field_info(Head(params)).error # None
    THEN extract_field_info(Head(params)).error
    ELSE InputFields(Tail(params))

\* create_func_models: the exception, and the output model
create_func_models(func) ==
    [error |-> InputFields(func.params),
     input_model |-> "model",
     output_model |-> determine_output_model(func)]

\* The tool decorator: desc and name are None when not given
tool(func, desc, name) ==
    [func EXCEPT
       !.tool_name = {IF name # None /\ name # <<>> THEN name
                      ELSE snake_to_pascal_case(func.ident)},
       !.tool_description = {IF desc # None /\ desc # "" THEN desc
                             ELSE IF func.doc # None THEN func.doc ELSE ""}]

\* The names a lock file gives its tools
LockNames ==
    {<<"a">>, <<"A">>, <<"a", "b">>, <<"a", "B">>, <<"a", "_", "b">>,
     <<"a", "_">>}

Versions == {"1", "2"}

\* Parameter defaults: none, a plain value, or a pydantic Field(...)
NoDefault == [kind |-> "empty", default |-> None, description |-> None]

ValueDefaults ==
    [kind : {"value"}, default : {None, "int:0", "int:5"},
     description : {None}]

FieldDefaults ==
    [kind : {"FieldInfo"}, default : {"PydanticUndefined", None, "int:5"},
     description : {None, "fd"}]

Defaults == {NoDefault} \cup ValueDefaults \cup FieldDefaults

\* Parameter types: every native type, its Optional, and the unions
ParamTypes ==
    {Plain(x) : x \in NativeTypes} \cup {OptionalOf(x) : x \in NativeTypes}
    \cup {[args |-> <<"int", "str">>, none |-> n] : n \in BOOLEAN}

\* Metadata of Annotated[t, ...]: text annotations and another object
Metadatas ==
    {<<"t1">>, <<"t1", "t2">>, <<"t1", "t2", "t3">>, <<"obj">>,
     <<"obj", "t1">>}

NoAnnotation == [form |-> "empty", type |-> Plain("str"), metadata |-> <<>>]

\* Annotation expressions of a parameter
Annotations ==
    {NoAnnotation}
    \cup [form : {"plain"}, type : ParamTypes, metadata : {<<>>}]
    \cup [form : {"Annotated", "Inferrable", "Opaque"}, type : ParamTypes,
          metadata : Metadatas]

ParamNames == <<"x", "y", "z", "w">>

\* A described int parameter, and the parameters of the longer signatures
Described(t) == [form |-> "Annotated", type |-> t, metadata |-> <<"t1">>]

CoreParams ==
    {[annotation |-> Described(Plain("int")), default |-> NoDefault],
     [annotation |-> Described(Plain("str")),
      default |-> [kind |-> "value", default |-> "int:5",
                   description |-> None]],
     [annotation |-> [form |-> "Annotated", type |-> OptionalOf("list[str]"),
                      metadata |-> <<"t1", "t2">>],
      default |-> NoDefault],
     [annotation |-> [form |-> "plain", type |-> Plain("bool"),
                      metadata |-> <<>>],
      default |-> [kind |-> "FieldInfo", default |-> "PydanticUndefined",
                   description |-> "fd"]],
     [annotation |-> [form |-> "plain", type |-> Plain("int"),
                      metadata |-> <<>>],
      default |-> NoDefault]}

\* inspect.signature(func).parameters: the parameters named by position
Signature(ps) ==
    [i \in 1..Len(ps) |->
        [name |-> ParamNames[i], annotation |-> ps[i].annotation,
         default |-> ps[i].default]]

\* Return annotations: none, a type (also None), or Annotated[t, text]
ReturnTypes == ParamTypes \cup {Plain("None")}

NoReturnAnnotation == NoAnnotation

ReturnAnnotations ==
    {NoReturnAnnotation}
    \cup [form : {"plain"}, type : ReturnTypes, metadata : {<<>>}]
    \cup [form : {"Annotated"}, type : ReturnTypes,
          metadata : {<<"rd">>, <<"">>}]

ReturnsInt == [form |-> "plain", type |-> Plain("int"), metadata |-> <<>>]

\* def ident(params) -> ret in a module, with or without docstring
Def(module, ident, doc, ps, ret, returns_value) ==
    [module |-> module, ident |-> ident, doc |-> doc,
     tool_name |-> {}, tool_description |-> {},
     params |-> Signature(ps), ret |-> ret, returns_value |-> returns_value]

\* The ways a function is declared a tool: undecorated, @tool,
\* @tool(desc=...), @tool(name=..., desc=...)
Declarations(f) ==
    {f, tool(f, None, None), tool(f, "d", None), tool(f, "", None),
     tool(f, "d", <<"N">>)}

\* The callables whose schema is inferred
SchemaFuncs ==
    {tool(Def("m1", <<"a">>, None,
              <<[annotation |-> a, default |-> d]>>, ReturnsInt, TRUE),
          "d", None) : a \in Annotations, d \in Defaults}
    \cup {tool(Def("m1", <<"a">>, None, ps, ReturnsInt, TRUE), "d", None) :
            ps \in UNION {[1..n -> CoreParams] : n \in 0..MaxParams}}
    \cup UNION {Declarations(Def("m1", i, doc, <<>>, ret, rv)) :
            i \in {<<"a">>, <<"a", "_", "b">>}, doc \in {None, "doc"},
            ret \in ReturnAnnotations, rv \in BOOLEAN}

\* The functions the lock file can point at
PackFuncs ==
    {tool(Def("m1", <<"a">>, None,
              <<[annotation |-> Described(Plain("int")),
                 default |-> NoDefault]>>, ReturnsInt, TRUE), "d", None),
     tool(Def("m2", <<"a">>, None,
              <<[annotation |-> Described(Plain("int")),
                 default |-> NoDefault]>>, ReturnsInt, TRUE), "d", None),
     Def("m1", <<"a", "b">>, None, <<>>, ReturnsInt, TRUE)}

\* One line of the lock file: name = "module.func@version"
LockEntries == [name : LockNames, func : PackFuncs, version : Versions]

\* ToolPack.tools is a dict: the names of a lock file are distinct
LockFiles ==
    {f \in UNION {[1..n -> LockEntries] : n \in 0..MaxLockEntries} :
        \A i, j \in DOMAIN f : f[i].name = f[j].name => i = j}

\* ToolCatalog.create_tool_definition: the ToolDefinition, or in error the
\* exception raised; description is a set, {} for None
ToolCatalog_create_tool_definition(func, version) ==
    LET inputs == create_input_definition(func)
        output == create_output_definition(func)
    IN  [error |->
            IF func.tool_description = {}
            THEN "ToolDefinitionError"
            ELSE IF func.returns_value
                    /\ (func.ret.form = "empty"
                        \/ (func.ret.form = "plain"
                            /\ func.ret.type = Plain("None")))
            THEN "ToolDefinitionError"
            ELSE IF inputs.error # None THEN inputs.error
            ELSE output.error,
         name |-> IF func.tool_name # {}
                  THEN CHOOSE n \in func.tool_name : TRUE
                  ELSE func.ident,
         description |-> func.tool_description,
         version |-> version,
         inputs |-> inputs.parameters,
         output |-> output.output]

\* The MaterializedTool read_tools builds for a lock file entry
MaterializedTool(e) ==
    [definition |-> ToolCatalog_create_tool_definition(e.func, e.version),
     tool |-> e.func,
     meta |-> [module |-> e.func.module],
     input_model |-> create_func_models(e.func).input_model,
     output_model |-> create_func_models(e.func).output_model]

\* The exception one iteration of read_tools raises, None for none:
\* create_func_models, then create_tool_definition, then the validation
\* of MaterializedTool (output_model is a type[BaseModel])
read_tools_error(e) ==
    IF create_func_models(e.func).error # None
    THEN create_func_models(e.func).error
    ELSE IF ToolCatalog_create_tool_definition(e.func, e.version).error
              # None
    THEN ToolCatalog_create_tool_definition(e.func, e.version).error
    ELSE IF create_func_models(e.func).output_model = None
    THEN "ValidationError"
    ELSE None

\* tools[tool_name] = MaterializedTool(...), on the dict and on its order
DictSet_setdefault(d, k, v) ==
    [x \in DOMAIN d \cup {k} |-> IF x \in DOMAIN d THEN d[x] ELSE v]

DictSet(d, k, v) ==
    [x \in DOMAIN d \cup {k} |-> IF x = k THEN v ELSE d[x]]

DictOrder(o, d, k) == IF k \in DOMAIN d THEN o ELSE Append(o, k)

InitCatalog ==
    /\ env = None
    /\ actor = NoActor
    /\ routes = {}
    /\ catalog = <<>>
    /\ calls = [c \in Callables |-> 0]
    /\ req = IdleRequest
    /\ resp = NoResponse
    /\ toolpack \in LockFiles
    /\ tools = <<>>
    /\ order = <<>>
    /\ loading = "reading"
    /\ registered = <<>>
    /\ NoTasks

\* One iteration of the loop of ToolCatalog.read_tools
ReadTool ==
    /\ loading = "reading"
    /\ toolpack # <<>>
    /\ LET e == Head(toolpack)
           tool_name == snake_to_pascal_case(e.name)
       IN  IF read_tools_error(e) # None
           THEN /\ loading' = read_tools_error(e)
                /\ UNCHANGED <<tools, order>>
           ELSE /\ tools' = DictSet(tools, tool_name, MaterializedTool(e))
                /\ order' = DictOrder(order, tools, tool_name)
                /\ loading' = loading
    /\ registered' = Append(registered, Head(toolpack))
    /\ toolpack' = Tail(toolpack)
    /\ UNCHANGED <<actorVars, taskVars>>

\* read_tools returns and ToolCatalog.__init__ stores the dict
ReadToolsReturn ==
    /\ loading = "reading"
    /\ toolpack = <<>>
    /\ loading' = "done"
    /\ UNCHANGED <<toolpack, tools, order, registered, actorVars, taskVars>>

\* ToolCatalog.__getitem__: the entry under the name, {} for None
ToolCatalog_getitem(name) ==
    IF name \in DOMAIN tools THEN {tools[name].tool} ELSE {}

\* ToolCatalog.get_tool: "for _, tool in self" unpacks each MaterializedTool,
\* which iterates as its five (field, value) pairs
ToolCatalog_get_tool(name) ==
    IF order = <<>> THEN "ValueError: not found"
    ELSE "ValueError: too many values to unpack"

\* ToolCatalog.list_tools
ToolCatalog_list_tools ==
    [i \in 1..Len(order) |->
        [name |-> tools[order[i]].definition.name,
         version |-> tools[order[i]].definition.version,
         endpoint |-> <<tools[order[i]].meta.module,
                        tools[order[i]].definition.name>>]]

NextCatalog == ReadTool \/ ReadToolsReturn

SpecCatalog == InitCatalog /\ [][NextCatalog]_vars

\* ToolCatalog(tools_dir) on a lock file with one entry, named as its function
InitSchema ==
    /\ env = None
    /\ actor = NoActor
    /\ routes = {}
    /\ catalog = <<>>
    /\ calls = [c \in Callables |-> 0]
    /\ req = IdleRequest
    /\ resp = NoResponse
    /\ toolpack \in {<<[name |-> f.ident, func |-> f, version |-> "1"]>> :
                        f \in SchemaFuncs}
    /\ tools = <<>>
    /\ order = <<>>
    /\ loading = "reading"
    /\ registered = <<>>
    /\ NoTasks

SpecSchema == InitSchema /\ [][NextCatalog]_vars

\* C10: registering a second callable with the same (name, version) as an
\* already registered one replaces the first entry: the listing contains
\* exactly one entry for that pair and lookups return the second callable.
C10_SamePairOverwrites ==
    loading = "done"
    => /\ \A i, j \in DOMAIN ToolCatalog_list_tools :
            (/\ ToolCatalog_list_tools[i].name = ToolCatalog_list_tools[j].name
             /\ ToolCatalog_list_tools[i].version
                  = ToolCatalog_list_tools[j].version)
            => i = j
       /\ \A i, j \in DOMAIN registered :
            (/\ i < j
             /\ MaterializedTool(registered[i]).definition
                  = MaterializedTool(registered[j]).definition
             /\ \A k \in DOMAIN registered :
                  k > j => MaterializedTool(registered[k]).definition
                             # MaterializedTool(registered[j]).definition)
            => ToolCatalog_getitem(
                   MaterializedTool(registered[j]).definition.name)
                 = {registered[j].func}

(***************************************************************************)
(* Claims on the catalog keys (SpecCatalog)                                *)
(***************************************************************************)
\* The definition read_tools derives for the i-th lock file entry read
Definition(i) == MaterializedTool(registered[i]).definition

Listed(d) ==
    \E k \in DOMAIN ToolCatalog_list_tools :
        /\ ToolCatalog_list_tools[k].name = d.name
        /\ ToolCatalog_list_tools[k].version = d.version

\* C11: the catalog is keyed by (name, version): two tools with the same
\* bare name and different versions are both registered, both listed and
\* both retrievable; registering one never removes or replaces the other.
C11_VersionsCoexist ==
    loading \in {"reading", "done"}
    => \A i, j \in DOMAIN registered :
         (/\ i < j
          /\ Definition(i).name = Definition(j).name
          /\ Definition(i).version # Definition(j).version)
         => /\ Listed(Definition(i))
            /\ Listed(Definition(j))
            /\ \E k \in DOMAIN tools : tools[k].definition = Definition(i)
            /\ \E k \in DOMAIN tools : tools[k].definition = Definition(j)

\* Two entries read so far have the same name and the same version
Collision ==
    \E i, j \in DOMAIN registered :
        /\ i < j
        /\ Definition(i).name = Definition(j).name
        /\ Definition(i).version = Definition(j).version

\* C12 as stated: registering a tool whose bare name collides with an
\* already registered tool, without the two differing by version, is
\* rejected with an error at registration time.
C12_CollisionRejected ==
    (/\ Collision
     /\ \A i \in DOMAIN registered : read_tools_error(registered[i]) = None)
    => loading \notin {"reading", "done"}

\* C12 amended: such a registration is not rejected: reading the lock file
\* raises no error because of the collision, and an entry stored under a
\* key already in the catalog replaces the entry that was there.
C12_CollisionNotRejected ==
    (\A i \in DOMAIN registered : read_tools_error(registered[i]) = None)
    => /\ loading \in {"reading", "done"}
       /\ \A i \in DOMAIN registered :
            (\A j \in DOMAIN registered :
                j > i => snake_to_pascal_case(registered[j].name)
                           # snake_to_pascal_case(registered[i].name))
            => /\ snake_to_pascal_case(registered[i].name) \in DOMAIN tools
               /\ tools[snake_to_pascal_case(registered[i].name)]
                    = MaterializedTool(registered[i])

C12_Witness ==
    /\ loading = "done"
    /\ \E i, j \in DOMAIN registered :
        /\ i < j
        /\ Definition(i).name = Definition(j).name
        /\ Definition(i).version = Definition(j).version
        /\ registered[i].func # registered[j].func
        /\ snake_to_pascal_case(registered[i].name)
             = snake_to_pascal_case(registered[j].name)
        /\ Len(order) = 1

(***************************************************************************)
(* Claims on schema inference (SpecSchema): the catalog reads one callable *)
(***************************************************************************)
\* The callable of the lock file entry that has been read
Read == registered # <<>>

Func == registered[1].func

\* The entry is in the catalog
Registered == Read /\ loading \in {"reading", "done"} /\ tools # <<>>

RegisteredDefinition == tools[order[1]].definition

\* Properties of a declared parameter
HasDefault(p) ==
    \/ p.default.kind = "value"
    \/ p.default.kind = "FieldInfo" /\ p.default.default # "PydanticUndefined"

OptionalWrapped(p) == p.annotation.type.none

TextCount(p) ==
    Len(SelectSeq(p.annotation.metadata, LAMBDA m : m \in TextAnnotations))

TextAt(p, i) ==
    SelectSeq(p.annotation.metadata, LAMBDA m : m \in TextAnnotations)[i]

\* C13: a parameter with a default value (of any value, including an
\* explicit None) or an optional-wrapped type is derived with
\* required = false; a parameter with neither is derived with
\* required = true.
C13_RequiredIffNoDefaultNotOptional ==
    Registered
    => \A i \in DOMAIN Func.params :
         RegisteredDefinition.inputs[i].required
           = ~(HasDefault(Func.params[i]) \/ OptionalWrapped(Func.params[i]))

\* The fixed table of the wire types, "unmapped" for every other native type;
\* the type is taken without its optional wrapper
TableWireType(t) ==
    IF Len(t.args) > 1 THEN "unmapped"
    ELSE CASE t.args[1] \in {"str", "Literal['a','b']"} -> "string"
           [] t.args[1] = "bool" -> "boolean"
           [] t.args[1] = "int" -> "integer"
           [] t.args[1] = "float" -> "float"
           [] t.args[1] \in {"dict", "list", "BaseModel", "Model",
                             "list[str]"} -> "json"
           [] OTHER -> "unmapped"

\* C14: wire-type derivation follows the fixed table and fails otherwise:
\* str is string, bool is boolean, int is integer, float is float,
\* dict/list/model types are json; with any other native type registration
\* fails, and nothing is registered with an absent or fallback wire type.
C14_WireTypeTableOrError ==
    Registered
    => /\ \A i \in DOMAIN Func.params :
            /\ TableWireType(Func.params[i].annotation.type) # "unmapped"
            /\ RegisteredDefinition.inputs[i].value_schema.val_type
                 = TableWireType(Func.params[i].annotation.type)
       /\ Func.ret.form # "empty"
          => /\ TableWireType(Func.ret.type) # "unmapped"
             /\ \A v \in RegisteredDefinition.output.value_schema :
                    v.val_type = TableWireType(Func.ret.type)

\* A parameter that is type-annotated
TypeAnnotated(p) == p.annotation.form # "empty"

\* A parameter whose derivation raises nothing
ParamOk(p) ==
    /\ extract_field_info(p).error = None
    /\ InputParameter_of(extract_field_info(p).info).error = None

OnlyViolation(i) ==
    \A j \in DOMAIN Func.params : j # i => ParamOk(Func.params[j])

\* The outcome of one and of two text annotations, and of more than two
TextAnnotationsApplied ==
    /\ \A i \in DOMAIN Func.params :
         (TypeAnnotated(Func.params[i]) /\ TextCount(Func.params[i]) > 2)
         => /\ loading \notin {"reading", "done"}
            /\ OnlyViolation(i) => loading = "ToolDefinitionError"
    /\ Registered
       => \A i \in DOMAIN Func.params :
            /\ TextCount(Func.params[i]) = 1
               => /\ RegisteredDefinition.inputs[i].name
                       = Func.params[i].name
                  /\ RegisteredDefinition.inputs[i].description
                       = TextAt(Func.params[i], 1)
            /\ TextCount(Func.params[i]) = 2
               => /\ RegisteredDefinition.inputs[i].name
                       = TextAt(Func.params[i], 1)
                  /\ RegisteredDefinition.inputs[i].description
                       = TextAt(Func.params[i], 2)

\* C15 as stated: the number of text annotations of a parameter decides the
\* outcome: zero is a definition error, one sets the description only, two
\* set the wire name and the description in that order, more than two is a
\* definition error.
C15_TextAnnotationCount ==
    Read
    => /\ TextAnnotationsApplied
       /\ \A i \in DOMAIN Func.params :
            (TypeAnnotated(Func.params[i]) /\ TextCount(Func.params[i]) = 0)
            => /\ loading \notin {"reading", "done"}
               /\ OnlyViolation(i) => loading = "ToolDefinitionError"

\* The description a Field(...) default carries, None for none
FieldDescription(p) ==
    IF p.default.kind = "FieldInfo" THEN p.default.description ELSE None

\* C15 amended: zero text annotations is a definition error unless the
\* default of the parameter is a Field carrying a description, which is then
\* the description of the parameter; one, two and more than two text
\* annotations are as stated.
C15_TextAnnotationCountOrField ==
    Read
    => /\ TextAnnotationsApplied
       /\ \A i \in DOMAIN Func.params :
            (TypeAnnotated(Func.params[i]) /\ TextCount(Func.params[i]) = 0)
            => IF FieldDescription(Func.params[i]) = None
               THEN /\ loading \notin {"reading", "done"}
                    /\ OnlyViolation(i) => loading = "ToolDefinitionError"
               ELSE Registered
                    => /\ RegisteredDefinition.inputs[i].name
                            = Func.params[i].name
                       /\ RegisteredDefinition.inputs[i].description
                            = FieldDescription(Func.params[i])

C15_Witness ==
    /\ Registered
    /\ \E i, j \in DOMAIN Func.params :
        /\ TextCount(Func.params[i]) = 2
        /\ RegisteredDefinition.inputs[i].name = "t1"
        /\ TextCount(Func.params[j]) = 0
        /\ RegisteredDefinition.inputs[j].description = "fd"

\* The schema violations of a callable
Unmappable(t) == TableWireType(t) = "unmapped"

SchemaViolation(func) ==
    \/ \E i \in DOMAIN func.params :
         \/ ~TypeAnnotated(func.params[i])
         \/ /\ TypeAnnotated(func.params[i])
            /\ \/ TextCount(func.params[i]) = 0
                  /\ FieldDescription(func.params[i]) = None
               \/ TextCount(func.params[i]) > 2
               \/ Unmappable(func.params[i].annotation.type)
    \/ /\ func.ret.form # "empty"
       /\ func.ret.type # Plain("None")
       /\ Unmappable(func.ret.type)
    \/ func.returns_value /\ func.ret.form = "empty"

\* C16: each schema violation of a callable (a parameter without a type
\* annotation or without a description, more than two text annotations, an
\* unmappable type, a body returning a value without a return annotation)
\* is reported as a ToolDefinitionError while the callable is registered:
\* never as another error kind, and never first at invocation.
C16_ViolationsAreToolDefinitionErrors ==
    (Read /\ SchemaViolation(Func)) => loading = "ToolDefinitionError"

\* C17: the available modes of the derived output schema depend only on the
\* return annotation: none gives a null value schema and modes [null]; a
\* non-optional annotation gives [value, error]; an optional annotation
\* gives [value, error, null].
C17_OutputModes ==
    Registered
    => /\ Func.ret.form = "empty"
          => /\ RegisteredDefinition.output.value_schema = {}
             /\ RegisteredDefinition.output.available_modes = <<"null">>
       /\ (Func.ret.form # "empty" /\ ~Func.ret.type.none)
          => RegisteredDefinition.output.available_modes
               = <<"value", "error">>
       /\ (Func.ret.form # "empty" /\ Func.ret.type.none)
          => RegisteredDefinition.output.available_modes
               = <<"value", "error", "null">>

C17_Witness ==
    /\ Registered
    /\ Func.ret.form = "Annotated"
    /\ Func.ret.type = OptionalOf("list[str]")
    /\ RegisteredDefinition.output.available_modes
         = <<"value", "error", "null">>
    /\ RegisteredDefinition.output.value_schema
         = {[val_type |-> "json", enum |-> {}]}

\* C18: registering a callable that declares no description (no explicit
\* description and no docstring) fails at registration time; no definition
\* with an absent or empty description is placed in the catalog; without an
\* explicit name the registered name is the normalized identifier.
C18_DescriptionMandatory ==
    Read
    => /\ Func.tool_description \in {{}, {""}}
          => loading \notin {"reading", "done"}
       /\ Registered
          => /\ RegisteredDefinition.description \notin {{}, {""}}
             /\ Func.tool_name # {<<"N">>}
                => RegisteredDefinition.name
                     = snake_to_pascal_case(Func.ident)

\* C19: a parameter carrying an explicit not-inferrable annotation is
\* registered with inferrable = false, and a parameter without such an
\* annotation with inferrable = true.
C19_OpaqueNotInferrable ==
    Registered
    => \A i \in DOMAIN Func.params :
         RegisteredDefinition.inputs[i].inferrable
           = (Func.params[i].annotation.form # "Opaque")

\* C20: for a callable whose parameters are all type-annotated and
\* described, schema inference yields exactly one InputParameter per
\* declared parameter, in declaration order.
C20_OneInputPerParameter ==
    (/\ Registered
     /\ \A i \in DOMAIN Func.params :
          /\ TypeAnnotated(Func.params[i])
          /\ TextCount(Func.params[i]) > 0
             \/ FieldDescription(Func.params[i]) # None)
    => /\ Len(RegisteredDefinition.inputs) = Len(Func.params)
       /\ \A i \in DOMAIN Func.params :
            /\ RegisteredDefinition.inputs[i].name
                 = IF TextCount(Func.params[i]) = 2
                   THEN TextAt(Func.params[i], 1)
                   ELSE ParamNames[i]
            /\ RegisteredDefinition.inputs[i].value_schema.val_type
                 = get_wire_type(
                     IF is_string_literal(
                          UnwrapOptional(Func.params[i].annotation.type)
                            .field_type)
                     THEN Plain("str")
                     ELSE UnwrapOptional(Func.params[i].annotation.type)
                            .field_type).wire_type

C20_Witness ==
    /\ Registered
    /\ Len(Func.params) = 2
    /\ RegisteredDefinition.inputs[1].name = "x"
    /\ RegisteredDefinition.inputs[1].value_schema.val_type = "string"
    /\ RegisteredDefinition.inputs[2].name = "t1"
    /\ RegisteredDefinition.inputs[2].value_schema.val_type = "json"

(***************************************************************************)
(* Further properties of the dispatch layer (Spec)                         *)
(***************************************************************************)
\* C21: after any sequence of tool and toolkit registrations, the health
\* response contains both a status and a tool_count, and tool_count is the
\* number of entries in the catalog (registering an entry again does not
\* increase it).
C21_HealthCountsCatalog ==
    resp.kind = "health"
    => /\ resp.health_keys = {"status", "tool_count"}
       /\ resp.health \in {"ok", "healthy"}
       /\ resp.tool_count = Cardinality(DOMAIN catalog)

(***************************************************************************)
(* Concurrent invocations: BaseActor.call_tool coroutines on one event     *)
(* loop.  A coroutine runs without interruption up to its next await; the  *)
(* only await of call_tool is ToolExecutor.run, which suspends while the   *)
(* native callable runs.                                                   *)
(***************************************************************************)
ToolCallRequests ==
    [invocation_id : InvocationIds, tool : ToolRefs, inputs : ConcurrentInputs]

\* The catalog once start-up registration has completed
RegisteredCatalog == ToolCatalog_add_toolkit(<<>>, <<"add", "define">>)

\* The ToolCallResponse call_tool returns
ToolCallResponse(request, output) ==
    [invocation_id |-> IF request.invocation_id = None THEN ""
                       ELSE request.invocation_id,
     success |-> ToolCallResponse_success(output),
     output |-> output]

\* The host transport schedules call_tool(tool_request)
BaseActor_call_tool_schedule(request) ==
    /\ Len(invocations) < MaxTasks
    /\ invocations' = Append(invocations, ScheduledTask(request))
    /\ UNCHANGED <<actorVars, catalogVars, slack, paginate, gmail, calendar>>

\* call_tool from its first statement to the await inside ToolExecutor.run:
\* the catalog lookup, start_time, the keyword binding of the call, and the
\* executor's input validation; an invocation whose inputs are invalid is
\* answered without suspending
BaseActor_call_tool_start(t) ==
    /\ t \in DOMAIN invocations
    /\ invocations[t].pc = "scheduled"
    /\ LET task == invocations[t]
           request == task.request
       IN  invocations' = [invocations EXCEPT ![t] =
             IF request.tool \notin DOMAIN catalog
             THEN [task EXCEPT !.pc = "raised", !.raised = "ValueError",
                               !.log = <<"get_tool">>]
             ELSE IF PresentKeys(request.inputs) \cap ExecutorKeywords # {}
             THEN [task EXCEPT !.pc = "raised", !.raised = "TypeError",
                               !.target = catalog[request.tool],
                               !.log = <<"get_tool", "start_time">>]
             ELSE IF ~InputsValid(catalog[request.tool], request.inputs)
             THEN [task EXCEPT
                     !.pc = "returned",
                     !.target = catalog[request.tool],
                     !.log = <<"get_tool", "start_time", "validate",
                               "end_time", "finished_at">>,
                     !.responses =
                        <<ToolCallResponse(request, ToolOutputFactory_fail)>>]
             ELSE [task EXCEPT
                     !.pc = "awaiting",
                     !.target = catalog[request.tool],
                     !.log = <<"get_tool", "start_time", "validate",
                               "invoke">>]]
    /\ UNCHANGED <<actorVars, catalogVars, slack, paginate, gmail, calendar>>

\* call_tool from the completion of the native callable to its return: the
\* executor wraps the outcome (serializing a returned value), then end_time,
\* duration_ms, finished_at and the ToolCallResponse
BaseActor_call_tool_resume(t) ==
    /\ t \in DOMAIN invocations
    /\ invocations[t].pc = "awaiting"
    /\ LET task == invocations[t]
       IN  /\ \E b \in Behaviours(task.target) :
                invocations' = [invocations EXCEPT ![t] =
                  [task EXCEPT
                     !.pc = "returned",
                     !.behaviour = b,
                     !.log = task.log \o
                             (IF b.kind = "return" THEN <<"serialize">>
                              ELSE <<>>) \o
                             <<"end_time", "finished_at">>,
                     !.responses =
                        <<ToolCallResponse(task.request,
                             ToolExecutor_output(task.target, b))>>]]
           /\ calls' = [calls EXCEPT ![task.target] = calls[task.target] + 1]
    /\ UNCHANGED <<env, actor, routes, catalog, req, resp, catalogVars,
                   slack, paginate, gmail, calendar>>

InitConcurrent ==
    /\ env \in Secrets
    /\ actor = [NoActor EXCEPT !.state = "ok", !.kind = "BaseActor",
                               !.secret = env]
    /\ routes = {}
    /\ catalog = RegisteredCatalog
    /\ calls = [c \in Callables |-> 0]
    /\ req = IdleRequest
    /\ resp = NoResponse
    /\ toolpack = <<>>
    /\ tools = <<>>
    /\ order = <<>>
    /\ loading = "done"
    /\ registered = <<>>
    /\ NoTasks

NextConcurrent ==
    \/ \E request \in ToolCallRequests : BaseActor_call_tool_schedule(request)
    \/ \E t \in 1..MaxTasks : BaseActor_call_tool_start(t)
    \/ \E t \in 1..MaxTasks : BaseActor_call_tool_resume(t)

SpecConcurrent == InitConcurrent /\ [][NextConcurrent]_vars

\* The output of an invocation's own call: the executor's answer to its own
\* inputs and to what its own callable did
OwnOutput(task) ==
    IF ~InputsValid(catalog[task.request.tool], task.request.inputs)
    THEN ToolOutputFactory_fail
    ELSE ToolExecutor_output(catalog[task.request.tool], task.behaviour)

\* An invocation of a registered tool whose coroutine has ended
Ended(t) ==
    /\ invocations[t].pc \in {"returned", "raised"}
    /\ invocations[t].request.tool \in DOMAIN catalog

\* C22: for any interleaving of concurrent invocations, each invocation
\* produces exactly one completed response, which carries its own invocation
\* id and the output of its own call only, and the catalog contents are the
\* same after the invocations as before them.
C22_InvocationsIndependent ==
    /\ catalog = RegisteredCatalog
    /\ \A t \in DOMAIN invocations :
          /\ Len(invocations[t].responses) <= 1
          /\ Ended(t) =>
                /\ Len(invocations[t].responses) = 1
                /\ invocations[t].responses[1].invocation_id
                      = invocations[t].request.invocation_id
                /\ invocations[t].responses[1].output
                      = OwnOutput(invocations[t])

\* Position of the first occurrence of event e in a coroutine's log
Position(log, e) == CHOOSE i \in 1..Len(log) : log[i] = e

Occurs(log, e) == \E i \in 1..Len(log) : log[i] = e

\* Event e1 precedes event e2 wherever both occur
Precedes(log, e1, e2) ==
    (Occurs(log, e1) /\ Occurs(log, e2))
    => Position(log, e1) < Position(log, e2)

\* C27: in every invocation the duration clock is started after input
\* validation has finished and stopped before output serialization starts,
\* so that the duration covers the native callable's execution only; the
\* completion time is stamped after the clock is stopped.
C27_ClockAroundCallableOnly ==
    \A t \in DOMAIN invocations :
        invocations[t].pc = "returned"
        => /\ Precedes(invocations[t].log, "validate", "start_time")
           /\ Precedes(invocations[t].log, "end_time", "serialize")
           /\ Precedes(invocations[t].log, "end_time", "finished_at")

(***************************************************************************)
(* Slack toolkit: pagination (arcade_slack/utils.py)                       *)
(***************************************************************************)
MaxItems == 3
MaxLimit == 3

\* arcade_slack.constants.MAX_PAGINATION_LIMIT, scaled down
MAX_PAGINATION_LIMIT == 2

Min(a, b) == IF a < b THEN a ELSE b

\* The cursor string that names offset k; StrCursor(0) is the empty string
StrCursor(k) == [kind |-> "str", offset |-> k]

\* Python truth value of a cursor: None and "" are falsy
CursorTruthy(c) == c.kind = "str" /\ c.offset > 0

\* The cursors a caller can pass
Cursors == {NoCursor} \cup {StrCursor(k) : k \in 1..(MaxItems - 1)}

\* Conversation names (sequences of characters)
ConversationNames == {<<"a">>, <<"A">>, <<"b">>}

RECURSIVE SeqsUpTo(_, _)
SeqsUpTo(S, n) ==
    IF n = 0 THEN {<<>>}
    ELSE LET shorter == SeqsUpTo(S, n - 1)
         IN  shorter \cup {Append(q, x) : q \in shorter, x \in S}

\* The conversations of a Slack workspace, in the order the API lists them
Workspaces == SeqsUpTo(ConversationNames, MaxItems)

\* What the last page carries as next_cursor: response_metadata is absent
\* (read as None) or its next_cursor is the empty string
EndCursors == {NoCursor, StrCursor(0)}

\* AsyncWebClient.conversations_list(limit=..., cursor=...): the responses
\* the Slack API can give, at most limit items starting at the cursor
conversations_list(channels, limit, cursor) ==
    LET start == cursor.offset
        remaining == Len(channels) - start
    IN  IF remaining <= 0
        THEN {[channels |-> <<>>, next_cursor |-> c] : c \in EndCursors}
        ELSE {[channels |-> SubSeq(channels, start + 1, start + n),
               next_cursor |-> IF start + n < Len(channels)
                               THEN StrCursor(start + n) ELSE c] :
                 n \in 1..Min(limit, remaining), c \in EndCursors}

\* The limits a caller can pass: None or an integer
Limits == {{}} \cup {{n} : n \in 0..MaxLimit}

\* async_paginate(func, response_key, limit=limit, cursor=cursor, **kwargs)
\* is entered; continue_from is the cursor its caller wants to continue from
async_paginate_enter(caller, channels, limit, cursor, continue_from) ==
    [IdlePaginate EXCEPT !.pc = "loop", !.caller = caller,
                         !.channels = channels, !.limit = limit,
                         !.cursor = cursor, !.given = continue_from]

\* A program calls async_paginate(conversations_list, "channels", limit,
\* cursor)
async_paginate_call(channels, limit, cursor) ==
    /\ slack.pc = "idle"
    /\ paginate.pc = "idle"
    /\ paginate' = async_paginate_enter("direct", channels, limit, cursor,
                                         cursor)
    /\ UNCHANGED <<actorVars, catalogVars, invocations, slack, gmail, calendar>>

\* One evaluation of the loop condition of async_paginate and, when it
\* holds, one request with what follows it up to the next await or return
async_paginate_iterate ==
    /\ paginate.pc = "loop"
    /\ IF paginate.limit = {}
       THEN paginate' = [paginate EXCEPT !.pc = "done",
                                         !.raised = "TypeError"]
       ELSE LET limit == CHOOSE n \in paginate.limit : TRUE
                collected == Len(paginate.results)
            IN  IF collected < limit
                THEN LET slack_limit ==
                             Min(limit - collected, MAX_PAGINATION_LIMIT)
                     IN  \E response \in conversations_list(
                               paginate.channels, slack_limit,
                               paginate.cursor) :
                           LET results == paginate.results
                                          \o response.channels
                               next == response.next_cursor
                               stop == \/ ~CursorTruthy(next)
                                       \/ Len(results) >= limit
                           IN  paginate' =
                                 [paginate EXCEPT
                                    !.results = results,
                                    !.kwargs_cursor = {next},
                                    !.requests = Append(@,
                                       [limit |-> slack_limit,
                                        cursor |-> paginate.cursor,
                                        collected |-> collected,
                                        next_cursor |-> next]),
                                    !.pc = IF stop THEN "done" ELSE "loop",
                                    !.returned =
                                       IF stop
                                       THEN <<[results |-> results,
                                               cursor |-> next]>>
                                       ELSE <<>>]
                ELSE IF paginate.kwargs_cursor = {}
                THEN paginate' = [paginate EXCEPT !.pc = "done",
                                                  !.raised = "KeyError"]
                ELSE paginate' =
                       [paginate EXCEPT
                          !.pc = "done",
                          !.returned =
                             <<[results |-> paginate.results,
                                cursor |-> CHOOSE c \in
                                   paginate.kwargs_cursor : TRUE]>>]
    /\ UNCHANGED <<actorVars, catalogVars, invocations, slack, gmail, calendar>>

\* list_conversations_metadata(context, limit=limit,
\* next_cursor=next_cursor): async_paginate is called with limit=limit and
\* next_cursor=next_cursor, which leaves its parameter cursor at None
list_conversations_metadata_call(channels, limit, next_cursor) ==
    /\ slack.pc = "idle"
    /\ paginate.pc = "idle"
    /\ slack' = [IdleSlack EXCEPT !.pc = "paginating",
                                  !.tool = "list_conversations_metadata",
                                  !.next_cursor = next_cursor]
    /\ paginate' = async_paginate_enter("list_conversations_metadata",
                                         channels, limit, NoCursor,
                                         next_cursor)
    /\ UNCHANGED <<actorVars, catalogVars, invocations, gmail, calendar>>

\* The dict list_conversations_metadata returns
ConversationsMetadata(conversations, next_cursor) ==
    [conversations |-> conversations, next_cursor |-> next_cursor,
     response_metadata |-> {}]

\* list_conversations_metadata after async_paginate has ended: it returns
\* its dict to the caller of the tool, or to find_conversation when
\* get_conversation_metadata_by_name called it; an exception of
\* async_paginate propagates (find_conversation's caller catches only
\* TimeoutError and ItemNotFoundError)
list_conversations_metadata_return ==
    /\ slack.pc = "paginating"
    /\ paginate.pc = "done"
    /\ slack' = IF paginate.raised # None
                THEN [slack EXCEPT !.pc = "done",
                                   !.raised = paginate.raised]
                ELSE LET response ==
                            ConversationsMetadata(
                                paginate.returned[1].results,
                                paginate.returned[1].cursor)
                     IN  IF slack.tool = "list_conversations_metadata"
                         THEN [slack EXCEPT !.pc = "done",
                                            !.returned = <<response>>]
                         ELSE [slack EXCEPT !.pc = "scan",
                                            !.response = <<response>>]
    /\ UNCHANGED <<actorVars, catalogVars, invocations, paginate, gmail, calendar>>

(***************************************************************************)
(* Slack toolkit: tools (arcade_slack/tools/chat.py)                       *)
(***************************************************************************)
\* str.lower()
str_lower(name) == [i \in DOMAIN name |-> Lower(name[i])]

\* The names a tool is asked for
RequestedNames == {<<"a">>, <<"b">>}

\* The return values of the patched list_conversations_metadata: the
\* conversations of a workspace on one page, or on two pages linked by the
\* first page's next_cursor
PatchedPages ==
    {<<ConversationsMetadata(channels, NoCursor)>> :
        channels \in Workspaces}
    \cup
    UNION {{<<ConversationsMetadata(SubSeq(channels, 1, k), StrCursor(k)),
              ConversationsMetadata(SubSeq(channels, k + 1, Len(channels)),
                                    NoCursor)>> :
              k \in 1..(Len(channels) - 1)} : channels \in Workspaces}

\* get_conversation_metadata_by_name(context, conversation_name,
\* next_cursor), list_conversations_metadata being the tool itself
get_conversation_metadata_by_name_call(name, next_cursor, channels) ==
    /\ slack.pc = "idle"
    /\ paginate.pc = "idle"
    /\ slack' = [IdleSlack EXCEPT
                   !.pc = "find",
                   !.tool = "get_conversation_metadata_by_name",
                   !.env = "live", !.name = name, !.given = next_cursor,
                   !.next_cursor = next_cursor, !.directory = channels]
    /\ UNCHANGED <<actorVars, catalogVars, invocations, paginate, gmail, calendar>>

\* The same call with list_conversations_metadata patched to return the
\* given dicts one after the other (tests/test_chat.py)
get_conversation_metadata_by_name_patched(name, next_cursor, pages) ==
    /\ slack.pc = "idle"
    /\ paginate.pc = "idle"
    /\ slack' = [IdleSlack EXCEPT
                   !.pc = "find",
                   !.tool = "get_conversation_metadata_by_name",
                   !.env = "patched", !.name = name, !.given = next_cursor,
                   !.next_cursor = next_cursor, !.pages = pages]
    /\ UNCHANGED <<actorVars, catalogVars, invocations, paginate, gmail, calendar>>

\* find_conversation: list_conversations_metadata(context,
\* next_cursor=next_cursor) is called
find_conversation_list ==
    /\ slack.pc = "find"
    /\ IF slack.env = "patched"
       THEN /\ slack' =
                 IF slack.pages = <<>>
                 THEN [slack EXCEPT !.pc = "done",
                                    !.listed = Append(@, slack.next_cursor),
                                    !.raised = "StopAsyncIteration"]
                 ELSE [slack EXCEPT !.pc = "scan",
                                    !.listed = Append(@, slack.next_cursor),
                                    !.response = <<Head(slack.pages)>>,
                                    !.pages = Tail(slack.pages)]
            /\ paginate' = paginate
       ELSE /\ slack' = [slack EXCEPT !.pc = "paginating",
                                      !.listed = Append(@, slack.next_cursor)]
            /\ paginate' = async_paginate_enter(
                              "list_conversations_metadata", slack.directory,
                              {}, NoCursor, slack.next_cursor)
    /\ UNCHANGED <<actorVars, catalogVars, invocations, gmail, calendar>>

\* The exception raised by the statement raise RetryableToolError(...,
\* retry_after_ms=500) of the Slack tools
SlackRetryableToolError == RetryableToolError_init("retry_after_ms", 500).kind

\* asyncio.timeout(MAX_PAGINATION_TIMEOUT_SECONDS) expires while
\* find_conversation awaits a page: TimeoutError, which
\* get_conversation_metadata_by_name answers with its raise statement
find_conversation_timeout ==
    /\ slack.pc = "paginating"
    /\ slack.tool = "get_conversation_metadata_by_name"
    /\ slack' = [slack EXCEPT !.pc = "done",
                              !.raised = SlackRetryableToolError]
    /\ UNCHANGED <<actorVars, catalogVars, invocations, paginate, gmail, calendar>>

\* Index of the first entry of names that equals name case-insensitively,
\* 0 when there is none
FirstMatch(names, name) ==
    IF \E i \in 1..Len(names) : str_lower(names[i]) = str_lower(name)
    THEN CHOOSE i \in 1..Len(names) :
            /\ str_lower(names[i]) = str_lower(name)
            /\ \A j \in 1..(i - 1) : str_lower(names[j]) # str_lower(name)
    ELSE 0

\* response.get("response_metadata", {}).get("next_cursor")
response_metadata_next_cursor(response) ==
    IF response.response_metadata = {} THEN NoCursor
    ELSE CHOOSE c \in response.response_metadata : TRUE

\* find_conversation from the response of list_conversations_metadata to
\* the next call, the return of the match, or the raise statement after
\* ItemNotFoundError
find_conversation_scan ==
    /\ slack.pc = "scan"
    /\ LET response == slack.response[1]
           next_cursor == response_metadata_next_cursor(response)
           match == FirstMatch(response.conversations, slack.name)
       IN  slack' =
             IF match > 0
             THEN [slack EXCEPT
                     !.pc = "done",
                     !.next_cursor = next_cursor,
                     !.responses = Append(@, response),
                     !.names = @ \o SubSeq(response.conversations, 1,
                                           match - 1),
                     !.returned = <<response.conversations[match]>>]
             ELSE IF CursorTruthy(next_cursor)
             THEN [slack EXCEPT
                     !.pc = "find",
                     !.next_cursor = next_cursor,
                     !.responses = Append(@, response),
                     !.names = @ \o response.conversations]
             ELSE [slack EXCEPT
                     !.pc = "done",
                     !.next_cursor = next_cursor,
                     !.responses = Append(@, response),
                     !.names = @ \o response.conversations,
                     !.raised = SlackRetryableToolError]
    /\ UNCHANGED <<actorVars, catalogVars, invocations, paginate, gmail, calendar>>

\* send_dm_to_user(context, user_name, message); directory holds the names
\* of the workspace's users, the user at position i having id i
send_dm_to_user_call(name, directory) ==
    /\ slack.pc = "idle"
    /\ paginate.pc = "idle"
    /\ slack' = [IdleSlack EXCEPT !.pc = "resolve",
                                  !.tool = "send_dm_to_user",
                                  !.name = name, !.directory = directory]
    /\ UNCHANGED <<actorVars, catalogVars, invocations, paginate, gmail, calendar>>

\* send_message_to_channel(context, channel_name, message); directory holds
\* the names of the workspace's channels
send_message_to_channel_call(name, directory) ==
    /\ slack.pc = "idle"
    /\ paginate.pc = "idle"
    /\ slack' = [IdleSlack EXCEPT !.pc = "resolve",
                                  !.tool = "send_message_to_channel",
                                  !.name = name, !.directory = directory]
    /\ UNCHANGED <<actorVars, catalogVars, invocations, paginate, gmail, calendar>>

\* A call of the Slack API: the method and the id it is called with
ApiCall(method, target) == [method |-> method, target |-> target]

\* Step 1 of both send tools: users_list() or conversations_list(), then
\* the search of the name in the response; ok is whether Slack answered
\* without SlackApiError
send_resolve_name(ok) ==
    /\ slack.pc = "resolve"
    /\ LET method == IF slack.tool = "send_dm_to_user" THEN "users_list"
                     ELSE "conversations_list"
           id == FirstMatch(slack.directory, slack.name)
           called == Append(slack.api_calls, ApiCall(method, 0))
       IN  slack' =
             IF ~ok
             THEN [slack EXCEPT !.pc = "done", !.api_calls = called,
                                !.raised = "ToolExecutionError"]
             ELSE IF id = 0
             THEN [slack EXCEPT !.pc = "done", !.api_calls = called,
                                !.raised = SlackRetryableToolError]
             ELSE [slack EXCEPT
                     !.pc = IF slack.tool = "send_dm_to_user" THEN "open"
                            ELSE "post",
                     !.api_calls = called,
                     !.target = id]
    /\ UNCHANGED <<actorVars, catalogVars, invocations, paginate, gmail, calendar>>

\* Step 2 of send_dm_to_user: conversations_open(users=[user_id])
send_dm_to_user_open(ok) ==
    /\ slack.pc = "open"
    /\ LET called == Append(slack.api_calls,
                            ApiCall("conversations_open", slack.target))
       IN  slack' =
             IF ~ok
             THEN [slack EXCEPT !.pc = "done", !.api_calls = called,
                                !.raised = "ToolExecutionError"]
             ELSE [slack EXCEPT !.pc = "post", !.api_calls = called]
    /\ UNCHANGED <<actorVars, catalogVars, invocations, paginate, gmail, calendar>>

\* The last step of both send tools: chat_postMessage(channel=..., text=...)
send_post_message(ok) ==
    /\ slack.pc = "post"
    /\ LET called == Append(slack.api_calls,
                            ApiCall("chat_postMessage", slack.target))
       IN  slack' =
             IF ~ok
             THEN [slack EXCEPT !.pc = "done", !.api_calls = called,
                                !.raised = "ToolExecutionError"]
             ELSE [slack EXCEPT !.pc = "done", !.api_calls = called,
                                !.returned = <<"response">>]
    /\ UNCHANGED <<actorVars, catalogVars, invocations, paginate, gmail, calendar>>

InitSlack ==
    /\ env = None
    /\ actor = NoActor
    /\ routes = {}
    /\ catalog = <<>>
    /\ calls = [c \in Callables |-> 0]
    /\ req = IdleRequest
    /\ resp = NoResponse
    /\ toolpack = <<>>
    /\ tools = <<>>
    /\ order = <<>>
    /\ loading = "done"
    /\ registered = <<>>
    /\ NoTasks

NextSlack ==
    \/ \E channels \in Workspaces, limit \in Limits, cursor \in Cursors :
          async_paginate_call(channels, limit, cursor)
    \/ async_paginate_iterate
    \/ \E channels \in Workspaces, limit \in Limits, cursor \in Cursors :
          list_conversations_metadata_call(channels, limit, cursor)
    \/ list_conversations_metadata_return
    \/ \E name \in RequestedNames, cursor \in Cursors,
          channels \in Workspaces :
          get_conversation_metadata_by_name_call(name, cursor, channels)
    \/ \E name \in RequestedNames, pages \in PatchedPages :
          get_conversation_metadata_by_name_patched(name, NoCursor, pages)
    \/ find_conversation_list
    \/ find_conversation_timeout
    \/ find_conversation_scan
    \/ \E name \in RequestedNames, directory \in Workspaces :
          send_dm_to_user_call(name, directory)
    \/ \E name \in RequestedNames, directory \in Workspaces :
          send_message_to_channel_call(name, directory)
    \/ \E ok \in BOOLEAN : send_resolve_name(ok)
    \/ \E ok \in BOOLEAN : send_dm_to_user_open(ok)
    \/ \E ok \in BOOLEAN : send_post_message(ok)

SpecSlack == InitSlack /\ [][NextSlack]_vars

(***************************************************************************)
(* Properties of the Slack toolkit (SpecSlack)                             *)
(***************************************************************************)
\* A name equal to the requested one case-insensitively
MatchesName(n) == str_lower(n) = str_lower(slack.name)

\* get_conversation_metadata_by_name has ended
ByNameEnded ==
    /\ slack.tool = "get_conversation_metadata_by_name"
    /\ slack.pc = "done"

\* C23: get_conversation_metadata_by_name visits the pages in cursor order,
\* requesting each next page with exactly the next_cursor of the previous
\* page; it returns the first conversation whose name matches
\* case-insensitively, and raises RetryableToolError only after a page
\* without next_cursor has been read and no conversation matched.
C23_PagesInCursorOrder ==
    slack.tool = "get_conversation_metadata_by_name"
    => /\ Len(slack.listed) >= 1 => slack.listed[1] = slack.given
       /\ \A i \in 2..Len(slack.listed) :
             /\ i - 1 <= Len(slack.responses)
             /\ slack.listed[i] = slack.responses[i - 1].next_cursor
       /\ (ByNameEnded /\ slack.returned # <<>>)
             => /\ MatchesName(slack.returned[1])
                /\ \A i \in 1..Len(slack.names) :
                       ~MatchesName(slack.names[i])
       /\ (ByNameEnded /\ slack.returned = <<>>)
             => /\ slack.raised = "RetryableToolError"
                /\ Len(slack.responses) >= 1
                /\ ~CursorTruthy(
                       slack.responses[Len(slack.responses)].next_cursor)
                /\ \A i \in 1..Len(slack.names) :
                       ~MatchesName(slack.names[i])

\* The calls of the Slack API that open a conversation or post a message
Effects ==
    {i \in 1..Len(slack.api_calls) :
        slack.api_calls[i].method
            \in {"conversations_open", "chat_postMessage"}}

\* The name lookup of a send tool was answered by Slack
NameLookedUp ==
    /\ slack.tool \in {"send_dm_to_user", "send_message_to_channel"}
    /\ slack.pc # "resolve"
    /\ ~(Len(slack.api_calls) = 1 /\ slack.raised = "ToolExecutionError")

\* C24: send_dm_to_user and send_message_to_channel post only after the
\* name has been resolved to an id; for an unknown name they raise
\* RetryableToolError, no conversation is opened and no message is posted.
C24_PostOnlyAfterResolved ==
    NameLookedUp
    => IF \E i \in 1..Len(slack.directory) : MatchesName(slack.directory[i])
       THEN \A i \in Effects :
               /\ slack.api_calls[i].target > 0
               /\ MatchesName(slack.directory[slack.api_calls[i].target])
       ELSE /\ Effects = {}
            /\ slack.raised = "RetryableToolError"

\* C28: the first request of async_paginate uses the caller's cursor, each
\* later request uses the next_cursor of the previous response, no page is
\* requested twice, and the returned cursor is the last response's
\* next_cursor.
C28_CursorThreaded ==
    LET r == paginate.requests
    IN  /\ Len(r) >= 1 => r[1].cursor = paginate.given
        /\ \A i \in 2..Len(r) : r[i].cursor = r[i - 1].next_cursor
        /\ \A i, j \in 1..Len(r) :
              i # j => r[i].cursor.offset # r[j].cursor.offset
        /\ (paginate.returned # <<>> /\ Len(r) >= 1)
              => paginate.returned[1].cursor = r[Len(r)].next_cursor

\* The number of items async_paginate is to collect: limit, or
\* MAX_PAGINATION_LIMIT when limit is None
EffectiveLimit ==
    IF paginate.limit = {} THEN MAX_PAGINATION_LIMIT
    ELSE CHOOSE n \in paginate.limit : TRUE

\* C29: async_paginate terminates and returns (results, cursor) for every
\* limit, None included (one request of MAX_PAGINATION_LIMIT items); it
\* requests a page only while fewer than limit items are collected and the
\* last response had a next_cursor, and each request asks for at most
\* min(limit - collected, MAX_PAGINATION_LIMIT) items.
C29_PaginateReturns ==
    LET r == paginate.requests
    IN  /\ paginate.pc = "done"
           => /\ paginate.raised = None
              /\ Len(paginate.returned) = 1
              /\ paginate.limit = {}
                    => /\ Len(r) >= 1
                       /\ r[1].limit = MAX_PAGINATION_LIMIT
        /\ \A i \in 1..Len(r) :
              /\ r[i].collected < EffectiveLimit
              /\ i > 1 => CursorTruthy(r[i - 1].next_cursor)
              /\ r[i].limit <= Min(EffectiveLimit - r[i].collected,
                                   MAX_PAGINATION_LIMIT)

(***************************************************************************)
(* Google toolkit: the Gmail tools (arcade_google/tools/gmail.py)          *)
(***************************************************************************)
MaxMessages == 2

\* The tools that make one request to the Gmail API
GmailRequestTools ==
    {"send_email", "send_draft_email", "write_draft_email",
     "update_draft_email", "delete_draft_email", "trash_email"}

\* The tools that list a mailbox and then get the listed messages one by one
GmailListingTools ==
    {"get_draft_emails", "search_emails_by_header", "get_emails"}

\* The value a Gmail tool returns
GmailValue(kind, emails) == [kind |-> kind, emails |-> emails]

\* A Gmail tool is called on a mailbox of the given size; n is n_drafts,
\* n_emails or limit, criteria is whether search_emails_by_header is given
\* any of sender, recipient, subject, body
gmail_tool_call(name, mailbox, n, criteria) ==
    /\ gmail.pc = "idle"
    /\ gmail' =
         IF name = "search_emails_by_header" /\ ~criteria
         THEN [IdleGmail EXCEPT !.pc = "done", !.tool = name,
                                !.raised = "ToolInputError"]
         ELSE [IdleGmail EXCEPT
                 !.pc = IF name \in GmailRequestTools THEN "request"
                        ELSE "list",
                 !.tool = name, !.mailbox = mailbox, !.n = n]
    /\ UNCHANGED <<actorVars, catalogVars, invocations, slack, paginate,
                   calendar>>

\* The request of a one-request tool is executed; ok is whether the API
\* answered without HttpError
gmail_request_execute(ok) ==
    /\ gmail.pc = "request"
    /\ gmail' =
         IF ok
         THEN [gmail EXCEPT !.pc = "done",
                            !.returned = <<GmailValue("confirmation", <<>>)>>]
         ELSE [gmail EXCEPT !.pc = "done",
                            !.http_errors = @ + 1,
                            !.returned = <<GmailValue("error", <<>>)>>]
    /\ UNCHANGED <<actorVars, catalogVars, invocations, slack, paginate,
                   calendar>>

\* maxResults of the list request of search_emails_by_header: limit or 100
maxResults(limit) == IF limit = 0 THEN 100 ELSE limit

\* The ids a listing tool goes on to get: search_emails_by_header gets every
\* message the API lists under maxResults, get_draft_emails and get_emails
\* the first n of the listing (draft_ids[:n_drafts], messages[:n_emails])
ListedIds(name, mailbox, n) ==
    IF name = "search_emails_by_header"
    THEN [i \in 1..Min(mailbox, maxResults(n)) |-> i]
    ELSE [i \in 1..Min(mailbox, n) |-> i]

\* The list request of a listing tool is executed
gmail_list_execute(ok) ==
    /\ gmail.pc = "list"
    /\ gmail' =
         IF ~ok
         THEN [gmail EXCEPT !.pc = "done",
                            !.http_errors = @ + 1,
                            !.returned = <<GmailValue("error", <<>>)>>]
         ELSE IF gmail.mailbox = 0
         THEN [gmail EXCEPT !.pc = "done",
                            !.returned = <<GmailValue("emails", <<>>)>>]
         ELSE IF ListedIds(gmail.tool, gmail.mailbox, gmail.n) = <<>>
         THEN [gmail EXCEPT !.pc = "done",
                            !.returned = <<GmailValue("emails", <<>>)>>]
         ELSE [gmail EXCEPT !.pc = "get",
                            !.pending = ListedIds(gmail.tool, gmail.mailbox,
                                                  gmail.n)]
    /\ UNCHANGED <<actorVars, catalogVars, invocations, slack, paginate,
                   calendar>>

\* One get request of a listing tool is executed; a failed one is printed
\* and skipped; after the last one the tool returns the emails it read
gmail_get_execute(ok) ==
    /\ gmail.pc = "get"
    /\ LET emails == IF ok THEN Append(gmail.emails, Head(gmail.pending))
                     ELSE gmail.emails
           pending == Tail(gmail.pending)
       IN  gmail' =
             [gmail EXCEPT
                !.pending = pending,
                !.emails = emails,
                !.http_errors = IF ok THEN @ ELSE @ + 1,
                !.pc = IF pending = <<>> THEN "done" ELSE "get",
                !.returned = IF pending = <<>>
                             THEN <<GmailValue("emails", emails)>>
                             ELSE <<>>]
    /\ UNCHANGED <<actorVars, catalogVars, invocations, slack, paginate,
                   calendar>>

InitGmail ==
    /\ env = None
    /\ actor = NoActor
    /\ routes = {}
    /\ catalog = <<>>
    /\ calls = [c \in Callables |-> 0]
    /\ req = IdleRequest
    /\ resp = NoResponse
    /\ toolpack = <<>>
    /\ tools = <<>>
    /\ order = <<>>
    /\ loading = "done"
    /\ registered = <<>>
    /\ NoTasks

NextGmail ==
    \/ \E name \in GmailRequestTools \cup GmailListingTools,
          mailbox \in 0..MaxMessages, n \in 0..MaxMessages,
          criteria \in BOOLEAN :
          gmail_tool_call(name, mailbox, n, criteria)
    \/ \E ok \in BOOLEAN : gmail_request_execute(ok)
    \/ \E ok \in BOOLEAN : gmail_list_execute(ok)
    \/ \E ok \in BOOLEAN : gmail_get_execute(ok)

SpecGmail == InitGmail /\ [][NextGmail]_vars

\* C25: every Gmail tool raises ToolExecutionError when a request to the
\* Google API fails with HttpError; it never returns a normal value for a
\* failed request.
C25_HttpErrorRaisesToolExecutionError ==
    (gmail.pc = "done" /\ gmail.http_errors > 0)
    => /\ gmail.raised = "ToolExecutionError"
       /\ gmail.returned = <<>>

(***************************************************************************)
(* Field descriptors as parameter defaults (SpecSchema)                    *)
(***************************************************************************)
\* The parameter's default is a Field(...) descriptor
FieldDefault(p) == p.default.kind = "FieldInfo"

\* required as the descriptor's default gives it: the parameter is required
\* only if the descriptor carries no default (and the type is not Optional)
FieldRequired(p) ==
    p.default.default = "PydanticUndefined" /\ ~OptionalWrapped(p)

\* C26: when a parameter's default is a field descriptor that carries its
\* own description or default, the derived InputParameter takes its
\* description and default from that descriptor, also when the parameter's
\* annotation carries text metadata of its own.
C26_FieldDescriptorPreferred ==
    Registered
    => \A i \in DOMAIN Func.params :
          FieldDefault(Func.params[i])
          => /\ FieldDescription(Func.params[i]) # None
                  => RegisteredDefinition.inputs[i].description
                        = FieldDescription(Func.params[i])
             /\ RegisteredDefinition.inputs[i].required
                  = FieldRequired(Func.params[i])

\* C26 amended: the default is always taken from the descriptor; the
\* description is taken from the descriptor when the annotation carries no
\* text metadata, and from the annotation's text metadata otherwise.
C26_FieldDescriptorUnlessText ==
    Registered
    => \A i \in DOMAIN Func.params :
          FieldDefault(Func.params[i])
          => /\ RegisteredDefinition.inputs[i].description
                  = IF TextCount(Func.params[i]) = 0
                    THEN FieldDescription(Func.params[i])
                    ELSE TextAt(Func.params[i], TextCount(Func.params[i]))
             /\ RegisteredDefinition.inputs[i].required
                  = FieldRequired(Func.params[i])

C26_Witness ==
    /\ Registered
    /\ \E i \in DOMAIN Func.params :
          /\ FieldDefault(Func.params[i])
          /\ FieldDescription(Func.params[i]) = "fd"
          /\ Func.params[i].default.default = "int:5"
          /\ TextCount(Func.params[i]) = 1
          /\ RegisteredDefinition.inputs[i].description = "t1"
          /\ ~RegisteredDefinition.inputs[i].required

(***************************************************************************)
(* Google toolkit: free time slots (arcade_google/tools/utils.py).         *)
(* Instants are integers; an interval is a pair <<start, end>>.            *)
(***************************************************************************)
MaxTime == 4
MaxBusy == 2

Max(a, b) == IF a > b THEN a ELSE b

Instants == 0..MaxTime

\* Busy intervals as a calendar reports them
BusyIntervals == {<<a, b>> : a \in Instants, b \in Instants} \ 
                 {<<a, b>> \in Instants \X Instants : a > b}

BusyLists == SeqsUpTo(BusyIntervals, MaxBusy)

\* Business windows
BusinessWindows == {w \in Instants \X Instants : w[1] < w[2]}

\* Insertion of an interval into a list sorted by start, after the
\* intervals of the same start (sorted() is stable)
RECURSIVE InsertByStart(_, _)
InsertByStart(sorted, x) ==
    IF sorted = <<>> THEN <<x>>
    ELSE IF x[1] < Head(sorted)[1] THEN <<x>> \o sorted
    ELSE <<Head(sorted)>> \o InsertByStart(Tail(sorted), x)

\* sorted(intervals, key=lambda x: x[0])
RECURSIVE SortedByStart(_)
SortedByStart(intervals) ==
    IF intervals = <<>> THEN <<>>
    ELSE InsertByStart(SortedByStart(SubSeq(intervals, 1,
                                            Len(intervals) - 1)),
                       intervals[Len(intervals)])

\* The loop of merge_intervals over the sorted intervals
RECURSIVE MergeLoop(_, _)
MergeLoop(merged, rest) ==
    IF rest = <<>> THEN merged
    ELSE LET start == Head(rest)[1]
             end == Head(rest)[2]
         IN  IF merged = <<>>
             THEN MergeLoop(<<<<start, end>>>>, Tail(rest))
             ELSE LET last == merged[Len(merged)]
                  IN  IF start <= last[2]
                      THEN MergeLoop(
                             [merged EXCEPT ![Len(merged)] =
                                 <<last[1], Max(last[2], end)>>],
                             Tail(rest))
                      ELSE MergeLoop(Append(merged, <<start, end>>),
                                     Tail(rest))

\* Merging the intervals in the order given
merge_intervals_unsorted(intervals) == MergeLoop(<<>>, intervals)

\* merge_intervals
merge_intervals(intervals) == MergeLoop(<<>>, SortedByStart(intervals))

\* A free slot: the dict of the two isoformat() strings, each standing for
\* its instant
FreeSlot(start, end) == [start |-> start, end |-> end]

\* The loop of subtract_busy_intervals over the merged busy intervals, and
\* the slot after the last of them
RECURSIVE SubtractLoop(_, _, _, _)
SubtractLoop(free_slots, current_free_start, merged_busy, business_end) ==
    IF merged_busy = <<>>
    THEN IF current_free_start < business_end
         THEN Append(free_slots, FreeSlot(current_free_start, business_end))
         ELSE free_slots
    ELSE LET busy_start == Head(merged_busy)[1]
             busy_end == Head(merged_busy)[2]
         IN  SubtractLoop(
               IF current_free_start < busy_start
               THEN Append(free_slots,
                           FreeSlot(current_free_start, busy_start))
               ELSE free_slots,
               Max(current_free_start, busy_end),
               Tail(merged_busy), business_end)

\* subtract_busy_intervals
subtract_busy_intervals(business_start, business_end, busy_intervals) ==
    SubtractLoop(<<>>, business_start, merge_intervals(busy_intervals),
                 business_end)

\* gather_busy_intervals: the busy slots that intersect the day's business
\* hours, clipped to them
RECURSIVE gather_busy_intervals(_, _, _)
gather_busy_intervals(busy, day_start, day_end) ==
    IF busy = <<>> THEN <<>>
    ELSE LET slot_start == Head(busy)[1]
             slot_end == Head(busy)[2]
             rest == gather_busy_intervals(Tail(busy), day_start, day_end)
         IN  IF slot_end > day_start /\ slot_start < day_end
             THEN <<<<Max(slot_start, day_start), Min(slot_end, day_end)>>>>
                  \o rest
             ELSE rest

\* subtract_busy_intervals(business_start, business_end, busy_intervals) is
\* called
subtract_busy_intervals_call ==
    /\ calendar.pc = "idle"
    /\ \E window \in BusinessWindows, busy \in BusyLists :
         calendar' =
           [pc |-> "done", caller |-> "direct",
            business_start |-> window[1], business_end |-> window[2],
            busy |-> busy, busy_intervals |-> busy,
            free_slots |-> subtract_busy_intervals(window[1], window[2],
                                                   busy)]
    /\ UNCHANGED <<actorVars, catalogVars, invocations, slack, paginate,
                   gmail>>

\* One business day of find_free_times: the busy slots of the calendars are
\* gathered for the day's business hours and subtracted from them
find_free_times_day ==
    /\ calendar.pc = "idle"
    /\ \E window \in BusinessWindows, busy \in BusyLists :
         LET busy_intervals ==
                 gather_busy_intervals(busy, window[1], window[2])
         IN  calendar' =
               [pc |-> "done", caller |-> "find_free_times",
                business_start |-> window[1], business_end |-> window[2],
                busy |-> busy, busy_intervals |-> busy_intervals,
                free_slots |-> subtract_busy_intervals(window[1], window[2],
                                                       busy_intervals)]
    /\ UNCHANGED <<actorVars, catalogVars, invocations, slack, paginate,
                   gmail>>

InitCalendar ==
    /\ env = None
    /\ actor = NoActor
    /\ routes = {}
    /\ catalog = <<>>
    /\ calls = [c \in Callables |-> 0]
    /\ req = IdleRequest
    /\ resp = NoResponse
    /\ toolpack = <<>>
    /\ tools = <<>>
    /\ order = <<>>
    /\ loading = "done"
    /\ registered = <<>>
    /\ NoTasks

NextCalendar ==
    \/ subtract_busy_intervals_call
    \/ find_free_times_day

SpecCalendar == InitCalendar /\ [][NextCalendar]_vars

\* Instant t lies in the interval from a to b
Within(t, a, b) == a <= t /\ t < b

\* The free slots are non-empty, ascending, pairwise disjoint, inside the
\* window, overlap no busy interval, and with the busy intervals cover the
\* window
FreeSlotsPartitionWindow ==
       LET free == calendar.free_slots
           busy == calendar.busy
       IN  /\ \A i \in 1..Len(free) :
                 /\ free[i].start < free[i].end
                 /\ calendar.business_start <= free[i].start
                 /\ free[i].end <= calendar.business_end
                 /\ \A k \in 1..Len(busy) :
                       ~(free[i].start < busy[k][2]
                         /\ busy[k][1] < free[i].end)
           /\ \A i, j \in 1..Len(free) :
                 i < j => free[i].end <= free[j].start
           /\ \A t \in calendar.business_start..(calendar.business_end - 1) :
                 \/ \E i \in 1..Len(free) :
                       Within(t, free[i].start, free[i].end)
                 \/ \E k \in 1..Len(busy) :
                       Within(t, busy[k][1], busy[k][2])

\* C30: for any business window and any list of busy intervals
\* (overlapping, adjacent, unsorted, or reaching outside the window), the
\* free slots returned by subtract_busy_intervals are non-empty, in
\* ascending order, pairwise disjoint, contained in [business_start,
\* business_end], and overlap no busy interval, and every instant of the
\* window lies in a free slot or in a busy interval.
C30_FreeSlotsPartitionWindow ==
    calendar.pc = "done" => FreeSlotsPartitionWindow

\* No busy interval passed to subtract_busy_intervals starts after the end
\* of the window
NoneStartsAfterEnd ==
    \A k \in 1..Len(calendar.busy_intervals) :
        calendar.busy_intervals[k][1] <= calendar.business_end

\* C30 amended: the same, for lists of busy intervals of which none starts
\* after business_end, as are the lists gather_busy_intervals passes.
C30_FreeSlotsPartitionWindowClipped ==
    (calendar.pc = "done" /\ NoneStartsAfterEnd) => FreeSlotsPartitionWindow

C30_Witness ==
    /\ calendar.pc = "done"
    /\ calendar.caller = "direct"
    /\ NoneStartsAfterEnd
    /\ Len(calendar.busy) = 2
    /\ calendar.busy[1][1] > calendar.busy[2][1]
    /\ calendar.busy[2][1] < calendar.business_start
    /\ calendar.busy[1][2] > calendar.business_end
    /\ Len(calendar.free_slots) >= 1

====
